---- MODULE Spec2Model ----
(***************************************************************************)
(* A model of the OpenStep property-list serializer (openstep-plist        *)
(* src/ser.rs) and of the Glyphs typed bridge built on it (glyphslib       *)
(* src/serde.rs, src/lib.rs).                                               *)
(*                                                                          *)
(* Text is a sequence of one-character strings; a token (SmolStr) is such   *)
(* a sequence and the serializer's output is a sequence of tokens.  A       *)
(* character of the model stands for one byte, except the character named   *)
(* NonAscii, which stands for the whole byte run of one multi-byte char.    *)
(* A float is held exactly, as an integer number of 10^-8 units.            *)
(***************************************************************************)
EXTENDS Integers, Sequences, FiniteSets, TLC

VARIABLES pc, op, arg, ser, out, res, disk

vars == <<pc, op, arg, ser, out, res, disk>>

(***************************************************************************)
(* Bounds of the model.                                                     *)
(***************************************************************************)
MaxStrLen == 3

MaxDataLen == 2

MaxSeqLen == 3

MaxDictLen == 2

MaxNestLen == 2

MaxFactors == 3

MaxCodepoints == 3

MaxIndex == 1

MaxTextLen == 4

MaxNameLen == 3

MaxGlyphs == 2

MaxFields == 2

MaxParts == 7

MaxTokenLen == 4

MaxAtLen == 2

MaxLabelLen == 3

(***************************************************************************)
(* Characters and text helpers.                                             *)
(***************************************************************************)
Digits == {"0", "1", "2", "3", "4", "5", "6", "7", "8", "9"}

LowerLetters == {"a", "b", "c", "d", "e", "f", "g", "h", "i", "j", "k", "l", "m",
                 "n", "o", "p", "q", "r", "s", "t", "u", "v", "w", "x", "y", "z"}

UpperLetters == {"A", "B", "C", "D", "E", "F", "G", "H", "I", "J", "K", "L", "M",
                 "N", "O", "P", "Q", "R", "S", "T", "U", "V", "W", "X", "Y", "Z"}

NonAscii == "é"

Nothing == <<>>

RECURSIVE Concat(_)
Concat(toks) == IF toks = <<>> THEN <<>> ELSE Head(toks) \o Concat(Tail(toks))

RECURSIVE JoinText(_, _)
JoinText(texts, sep) ==
    IF texts = <<>> THEN <<>>
    ELSE IF Len(texts) = 1 THEN texts[1]
    ELSE texts[1] \o sep \o JoinText(Tail(texts), sep)

RECURSIVE SeqsUpTo(_, _)
SeqsUpTo(S, n) ==
    IF n = 0 THEN {<<>>}
    ELSE LET shorter == SeqsUpTo(S, n - 1)
         IN  shorter \cup {Append(s, c) : s \in shorter, c \in S}

All(s, P(_)) == \A k \in 1..Len(s) : P(s[k])

(***************************************************************************)
(* The bare-token alphabet of the serializer and the digit test.           *)
(***************************************************************************)
is_numeric(b) == b \in Digits

is_alnum_strict(b) == b \in Digits \cup LowerLetters \cup UpperLetters \cup {"_"}

(***************************************************************************)
(* escape_string: a bare token, or the quoted form built slice by slice.   *)
(* start and ix are the 0-based byte offsets of the code; s[start..ix] is   *)
(* SubSeq(s, start + 1, ix).                                                *)
(***************************************************************************)
\* escape_loop restarting the slice after the escaped character
RECURSIVE escape_loop_skipping(_, _, _, _)
escape_loop_skipping(buf, s, start, ix) ==
    IF ix < Len(s)
    THEN IF s[ix + 1] \in {"\"", "\\"}
         THEN escape_loop_skipping(buf \o <<SubSeq(s, start + 1, ix), <<"\\">>>>, s,
                                   ix + 1, ix + 1)
         ELSE escape_loop_skipping(buf, s, start, ix + 1)
    ELSE buf \o <<SubSeq(s, start + 1, Len(s)), <<"\"">>>>

RECURSIVE escape_loop(_, _, _, _)
escape_loop(buf, s, start, ix) ==
    IF ix < Len(s)
    THEN IF s[ix + 1] \in {"\"", "\\"}
         THEN escape_loop(buf \o <<SubSeq(s, start + 1, ix), <<"\\">>>>, s, ix, ix + 1)
         ELSE escape_loop(buf, s, start, ix + 1)
    ELSE buf \o <<SubSeq(s, start + 1, Len(s)), <<"\"">>>>

\* escape_string without the all-digits test
escape_string_digits_bare(buf, s) ==
    IF s # <<>> /\ All(s, is_alnum_strict)
    THEN Append(buf, s)
    ELSE escape_loop(Append(buf, <<"\"">>), s, 0, 0)

escape_string(buf, s) ==
    IF s # <<>> /\ All(s, is_alnum_strict) /\ ~All(s, is_numeric)
    THEN Append(buf, s)
    ELSE escape_loop(Append(buf, <<"\"">>), s, 0, 0)

(***************************************************************************)
(* Numbers as text.  format!("{v}") of an integer; Display of a float,     *)
(* which prints the shortest decimal that reads back as the same float:    *)
(* no decimal point for an integral value, no exponent, no trailing zero.  *)
(***************************************************************************)
FLOAT_PRECISION == 4

RECURSIVE Pow10(_)
Pow10(n) == IF n = 0 THEN 1 ELSE 10 * Pow10(n - 1)

\* The model keeps twice the digits the serializer prints.
FloatDigits == 2 * FLOAT_PRECISION

FloatUnit == Pow10(FloatDigits)

Abs(n) == IF n < 0 THEN 0 - n ELSE n

DigitChar(d) == <<"0", "1", "2", "3", "4", "5", "6", "7", "8", "9">>[d + 1]

DigitValue(c) == CHOOSE d \in 0..9 : DigitChar(d) = c

RECURSIVE NatToStr(_)
NatToStr(n) == IF n < 10 THEN <<DigitChar(n)>>
               ELSE Append(NatToStr(n \div 10), DigitChar(n % 10))

IntToStr(n) == IF n < 0 THEN <<"-">> \o NatToStr(0 - n) ELSE NatToStr(n)

RECURSIVE PadLeft(_, _)
PadLeft(s, n) == IF Len(s) >= n THEN s ELSE PadLeft(<<"0">> \o s, n)

RECURSIVE StripZeros(_)
StripZeros(s) == IF s # <<>> /\ s[Len(s)] = "0" THEN StripZeros(SubSeq(s, 1, Len(s) - 1))
                 ELSE s

\* A float is [neg, mag]: its sign bit and its magnitude in 10^-8 units, so
\* that negative zero is a value of its own, as it is in IEEE 754.
Float(units) == [neg |-> units < 0, mag |-> Abs(units)]

FloatToStr(f) ==
    LET whole == NatToStr(f.mag \div FloatUnit)
        frac == StripZeros(PadLeft(NatToStr(f.mag % FloatUnit), FloatDigits))
    IN  (IF f.neg THEN <<"-">> ELSE <<>>) \o whole
        \o (IF frac = <<>> THEN <<>> ELSE <<".">> \o frac)

\* RoundToPrecision with trunc() in place of round()
RoundToPrecision_truncating(f, precision) ==
    LET step == FloatUnit \div Pow10(precision)
    IN  [neg |-> f.neg, mag |-> (f.mag \div step) * step]

\* (v * 10^FLOAT_PRECISION).round() / 10^FLOAT_PRECISION; round() rounds
\* half away from zero and keeps the sign.
RoundToPrecision(f, precision) ==
    LET step == FloatUnit \div Pow10(precision)
        down == f.mag \div step
    IN  [neg |-> f.neg,
         mag |-> (IF 2 * (f.mag % step) >= step THEN down + 1 ELSE down) * step]

(***************************************************************************)
(* str::parse::<i64>() and str::parse::<f64>() of the standard library.    *)
(***************************************************************************)
RECURSIVE DigitsToNat(_)
DigitsToNat(s) == IF s = <<>> THEN 0
                  ELSE 10 * DigitsToNat(SubSeq(s, 1, Len(s) - 1)) + DigitValue(s[Len(s)])

AllDigits(s) == s # <<>> /\ \A k \in 1..Len(s) : s[k] \in Digits

Unsigned(s) == IF s # <<>> /\ s[1] \in {"-", "+"} THEN Tail(s) ELSE s

IsNeg(s) == s # <<>> /\ s[1] = "-"

IsI64(s) == AllDigits(Unsigned(s))

I64Value(s) == IF IsNeg(s) THEN 0 - DigitsToNat(Unsigned(s)) ELSE DigitsToNat(Unsigned(s))

IndexOf(s, C) == IF \E k \in 1..Len(s) : s[k] \in C
                 THEN CHOOSE k \in 1..Len(s) : s[k] \in C /\ \A j \in 1..(k - 1) : s[j] \notin C
                 ELSE 0

LowerOf(c) == CASE c = "I" -> "i" [] c = "N" -> "n" [] c = "F" -> "f" [] c = "A" -> "a"
                [] c = "T" -> "t" [] c = "Y" -> "y" [] OTHER -> c

IsSpecialFloat(s) ==
    [k \in 1..Len(s) |-> LowerOf(s[k])]
        \in {<<"i", "n", "f">>, <<"n", "a", "n">>, <<"i", "n", "f", "i", "n", "i", "t", "y">>}

IsMantissa(s) ==
    LET dot == IndexOf(s, {"."})
        whole == IF dot = 0 THEN s ELSE SubSeq(s, 1, dot - 1)
        frac == IF dot = 0 THEN <<>> ELSE SubSeq(s, dot + 1, Len(s))
    IN  /\ \A k \in 1..Len(whole) : whole[k] \in Digits
        /\ \A k \in 1..Len(frac) : frac[k] \in Digits
        /\ Len(whole) + Len(frac) > 0

IsF64(s) ==
    LET u == Unsigned(s)
        e == IndexOf(u, {"e", "E"})
    IN  \/ IsSpecialFloat(u)
        \/ e = 0 /\ IsMantissa(u)
        \/ e > 0 /\ IsMantissa(SubSeq(u, 1, e - 1)) /\ IsI64(SubSeq(u, e + 1, Len(u)))

\* The value of a float literal without exponent and with at most
\* FloatDigits fractional digits (every literal of the model is one).
F64Value(s) ==
    LET u == Unsigned(s)
        dot == IndexOf(u, {"."})
        whole == IF dot = 0 THEN u ELSE SubSeq(u, 1, dot - 1)
        frac == IF dot = 0 THEN <<>> ELSE SubSeq(u, dot + 1, Len(u))
    IN  [neg |-> IsNeg(s),
         mag |-> DigitsToNat(whole) * FloatUnit
                 + DigitsToNat(frac) * Pow10(FloatDigits - Len(frac))]

(***************************************************************************)
(* hex_digits_for_byte and its helper to_hex_digit.                        *)
(***************************************************************************)
Unreachable == "unreachable!"

to_hex_digit(val) ==
    IF val \in 0..9 THEN DigitChar(val)
    ELSE IF val \in 10..15 THEN <<"a", "b", "c", "d", "e", "f">>[val - 10 + 1]
    ELSE Unreachable

\* hex_digits_for_byte with the low nibble first
hex_digits_for_byte_low_first(byte) == <<to_hex_digit(byte % 16), to_hex_digit(byte \div 16)>>

hex_digits_for_byte(byte) == <<to_hex_digit(byte \div 16), to_hex_digit(byte % 16)>>

(***************************************************************************)
(* The serializer: Serializer { output, seq_stack, map_depth }.  Every     *)
(* method takes the serializer and returns it as the method leaves it.     *)
(*                                                                          *)
(* A value to serialize is a record tagged by t:                            *)
(*   str s, int i, float f, data d, arr a, dict e   (the cases of Plist)    *)
(*   bool b, none, tuple a, struct e                (typed values)          *)
(* where a is a sequence of values and e a sequence of [k, v] entries.      *)
(***************************************************************************)
NewSerializer == [output |-> <<>>, seq_stack |-> <<>>, map_depth |-> 0]

Tok(s, tok) == [s EXCEPT !.output = Append(@, tok)]

EndsWith(output, tok) == output # <<>> /\ output[Len(output)] = tok

serialize_bool(s, v) == Tok(s, IF v THEN <<"1">> ELSE <<"0">>)

serialize_i64(s, v) == Tok(s, IntToStr(v))

serialize_f64(s, v) == Tok(s, FloatToStr(RoundToPrecision(v, FLOAT_PRECISION)))

serialize_str(s, v) == [s EXCEPT !.output = escape_string(@, v)]

RECURSIVE hex_of_bytes(_)
hex_of_bytes(data) ==
    IF data = <<>> THEN <<>>
    ELSE hex_digits_for_byte(Head(data)) \o hex_of_bytes(Tail(data))

serialize_bytes(s, data) == Tok(s, <<"<">> \o hex_of_bytes(data) \o <<">">>)

serialize_unit(s) == Tok(s, <<"n", "u", "l", "l">>)

serialize_none(s) == serialize_unit(s)

serialize_seq(s) ==
    [s EXCEPT !.seq_stack =
        Append(@, [elements |-> <<>>, all_simple |-> TRUE, all_numeric |-> TRUE])]

serialize_tuple(s) == Tok(s, <<"(">>)

\* serialize_tuple_struct: self.serialize_seq(Some(len))
serialize_tuple_struct(s) == serialize_seq(s)

serialize_map(s) == Tok([s EXCEPT !.map_depth = @ + 1], <<"{">>)

serialize_struct(s) == serialize_map(s)

\* IsComplex that misses the opening token of a block sequence
IsComplex_inline_only(toks) ==
    /\ toks # <<>>
    /\ \/ toks[1] = <<"(">>
       \/ toks[1] = <<"{">>

\* The two tests SerializeSeq::serialize_element makes on the tokens of an
\* element.
IsComplex(toks) ==
    /\ toks # <<>>
    /\ \/ Len(toks[1]) >= 2 /\ SubSeq(toks[1], 1, 2) = <<"(", "\n">>
       \/ toks[1] = <<"(">>
       \/ toks[1] = <<"{">>

AllNumeric(toks) ==
    \A k \in 1..Len(toks) : IsF64(toks[k]) \/ toks[k] = <<"-">> \/ toks[k] = <<".">>

\* state.elements.push(tmp.output) and the two flags, on the innermost
\* sequence; nothing when the stack is empty.
seq_record_element(s, toks) ==
    IF s.seq_stack = <<>> THEN s
    ELSE LET top == Len(s.seq_stack)
             state == s.seq_stack[top]
         IN  [s EXCEPT !.seq_stack[top] =
                [elements |-> Append(state.elements, toks),
                 all_simple |-> state.all_simple /\ ~IsComplex(toks),
                 all_numeric |-> state.all_numeric /\ AllNumeric(toks)]]

RECURSIVE JoinElements(_, _)
JoinElements(elements, sep) ==
    IF elements = <<>> THEN <<>>
    ELSE IF Len(elements) = 1 THEN elements[1]
    ELSE elements[1] \o <<sep>> \o JoinElements(Tail(elements), sep)

\* SerializeSeq::end
seq_end(s) ==
    IF s.seq_stack = <<>> THEN s
    ELSE LET top == Len(s.seq_stack)
             state == s.seq_stack[top]
             popped == [s EXCEPT !.seq_stack = SubSeq(@, 1, top - 1)]
         IN  IF state.all_simple
             THEN [popped EXCEPT !.output =
                     @ \o <<<<"(">>>>
                       \o JoinElements(state.elements,
                                       IF state.all_numeric THEN <<",">> ELSE <<",", " ">>)
                       \o <<<<")">>>>]
             ELSE [popped EXCEPT !.output =
                     @ \o <<<<"(", "\n">>>>
                       \o JoinElements(state.elements, <<",", "\n">>)
                       \o <<<<"\n", ")">>>>]

\* tuple_separator without the test for the opening parenthesis
tuple_separator_always(s) == Tok(s, <<",">>)

\* SerializeTuple::serialize_element, up to the call that serializes the value
tuple_separator(s) == IF EndsWith(s.output, <<"(">>) THEN s ELSE Tok(s, <<",">>)

tuple_end(s) == Tok(s, <<")">>)

\* SerializeTupleStruct::serialize_field, up to the call that serializes the value
tuple_struct_separator(s) == IF EndsWith(s.output, <<"(">>) THEN s ELSE Tok(s, <<",", " ">>)

\* SerializeTupleStruct::end
tuple_struct_end(s) == Tok(s, <<")">>)

\* SerializeMap::serialize_key, up to the call that serializes the key
map_key_prefix(s) == Tok(s, <<"\n">>)

\* SerializeMap::serialize_value, around the call that serializes the value
map_value_prefix(s) == Tok(s, <<" ", "=", " ">>)

\* map_value_suffix that forgets the semicolon
map_value_suffix_none(s) == s

map_value_suffix(s) == Tok(s, <<";">>)

\* map_end that closes a nested dictionary with its own semicolon
map_end_nested_semicolon(s) ==
    [Tok(s, IF s.map_depth > 1 THEN <<"\n", "}", ";">> ELSE <<"\n", "}">>)
        EXCEPT !.map_depth = IF @ = 0 THEN 0 ELSE @ - 1]

map_end(s) ==
    [Tok(s, <<"\n", "}">>) EXCEPT !.map_depth = IF @ = 0 THEN 0 ELSE @ - 1]

\* SerializeStruct::end: a trailing ";" is popped and pushed again
struct_end(s) ==
    LET again == IF EndsWith(s.output, <<";">>)
                 THEN Tok([s EXCEPT !.output = SubSeq(@, 1, Len(@) - 1)], <<";">>)
                 ELSE s
    IN  Tok(again, <<"\n", "}">>)

RECURSIVE Serialize(_, _), SeqElements(_, _), TupleElements(_, _),
          MapEntries(_, _), StructFields(_, _), TupleStructFields(_, _)

\* value.serialize(serializer)
Serialize(s, v) ==
    CASE v.t = "str" -> serialize_str(s, v.s)
      [] v.t = "int" -> serialize_i64(s, v.i)
      [] v.t = "float" -> serialize_f64(s, v.f)
      [] v.t = "data" -> serialize_bytes(s, v.d)
      [] v.t = "bool" -> serialize_bool(s, v.b)
      [] v.t = "none" -> serialize_none(s)
      [] v.t = "arr" -> seq_end(SeqElements(serialize_seq(s), v.a))
      [] v.t = "tuple" -> tuple_end(TupleElements(serialize_tuple(s), v.a))
      [] v.t = "dict" -> map_end(MapEntries(serialize_map(s), v.e))
      [] v.t = "struct" -> struct_end(StructFields(serialize_struct(s), v.e))
      [] v.t = "tuple_struct" ->
            tuple_struct_end(TupleStructFields(serialize_tuple_struct(s), v.a))

\* SerializeSeq::serialize_element for each element in turn: the element is
\* serialized into a temporary serializer and its tokens are buffered.
SeqElements(s, elems) ==
    IF elems = <<>> THEN s
    ELSE SeqElements(seq_record_element(s, Serialize(NewSerializer, Head(elems)).output),
                     Tail(elems))

TupleElements(s, elems) ==
    IF elems = <<>> THEN s
    ELSE TupleElements(Serialize(tuple_separator(s), Head(elems)), Tail(elems))

\* SerializeTupleStruct::serialize_field for each field in turn
TupleStructFields(s, fields) ==
    IF fields = <<>> THEN s
    ELSE TupleStructFields(Serialize(tuple_struct_separator(s), Head(fields)), Tail(fields))

\* serialize_key then serialize_value for each entry in turn
MapEntries(s, entries) ==
    IF entries = <<>> THEN s
    ELSE LET e == Head(entries)
             key == Serialize(map_key_prefix(s), [t |-> "str", s |-> e.k])
             val == map_value_suffix(Serialize(map_value_prefix(key), e.v))
         IN  MapEntries(val, Tail(entries))

\* SerializeStruct::serialize_field for each field in turn
StructFields(s, fields) ==
    IF fields = <<>> THEN s
    ELSE LET e == Head(fields)
             key == Serialize(Tok(s, <<"\n">>), [t |-> "str", s |-> e.k])
             val == Tok(Serialize(Tok(key, <<" ", "=", " ">>), e.v), <<";">>)
         IN  StructFields(val, Tail(fields))

\* to_string: a fresh serializer, the tokens joined
to_string_ser(v) == Serialize(NewSerializer, v)

to_string(v) == Concat(to_string_ser(v).output)

(***************************************************************************)
(* The parser, Plist::parse: a recursive descent over the text.  A parse    *)
(* step returns [ok, v, i]: whether it succeeded, the value, and the        *)
(* 1-based index of the first character it did not consume.                 *)
(***************************************************************************)
Whitespace == {" ", "\n", "\t"}

\* the alphabet of a bare token as the parser reads it
is_alnum(b) == is_alnum_strict(b) \/ b \in {".", "-", "/", ":", "$"}

Failed == [ok |-> FALSE]

RECURSIVE SkipWs(_, _)
SkipWs(t, i) == IF i <= Len(t) /\ t[i] \in Whitespace THEN SkipWs(t, i + 1) ELSE i

RECURSIVE TokenEnd(_, _)
TokenEnd(t, i) == IF i <= Len(t) /\ is_alnum(t[i]) THEN TokenEnd(t, i + 1) ELSE i

IsIntLiteral(tok) == AllDigits(IF IsNeg(tok) THEN Tail(tok) ELSE tok)

IsFloatLiteral(tok) == LET u == IF IsNeg(tok) THEN Tail(tok) ELSE tok
                       IN  IsMantissa(u)

\* integer first, then float, then an opaque string
BareToken(tok) ==
    IF IsIntLiteral(tok) THEN [t |-> "int", i |-> I64Value(tok)]
    ELSE IF IsFloatLiteral(tok) THEN [t |-> "float", f |-> F64Value(tok)]
    ELSE [t |-> "str", s |-> tok]

RECURSIVE ParseQuoted(_, _, _)
ParseQuoted(t, i, acc) ==
    IF i > Len(t) THEN Failed
    ELSE IF t[i] = "\"" THEN [ok |-> TRUE, v |-> [t |-> "str", s |-> acc], i |-> i + 1]
    ELSE IF t[i] = "\\"
         THEN IF i + 1 > Len(t) THEN Failed
              ELSE IF t[i + 1] \in {"\"", "\\"} THEN ParseQuoted(t, i + 2, Append(acc, t[i + 1]))
              ELSE IF t[i + 1] = "n" THEN ParseQuoted(t, i + 2, Append(acc, "\n"))
              ELSE IF t[i + 1] = "t" THEN ParseQuoted(t, i + 2, Append(acc, "\t"))
              ELSE Failed
    ELSE ParseQuoted(t, i + 1, Append(acc, t[i]))

HexDigits == Digits \cup {"a", "b", "c", "d", "e", "f", "A", "B", "C", "D", "E", "F"}

HexValue(c) ==
    IF c \in Digits THEN DigitValue(c)
    ELSE CASE c \in {"a", "A"} -> 10 [] c \in {"b", "B"} -> 11 [] c \in {"c", "C"} -> 12
           [] c \in {"d", "D"} -> 13 [] c \in {"e", "E"} -> 14 [] c \in {"f", "F"} -> 15

RECURSIVE ParseData(_, _, _)
ParseData(t, i, acc) ==
    LET j == SkipWs(t, i)
    IN  IF j > Len(t) THEN Failed
        ELSE IF t[j] = ">" THEN [ok |-> TRUE, v |-> [t |-> "data", d |-> acc], i |-> j + 1]
        ELSE IF j + 1 <= Len(t) /\ t[j] \in HexDigits /\ t[j + 1] \in HexDigits
             THEN ParseData(t, j + 2, Append(acc, 16 * HexValue(t[j]) + HexValue(t[j + 1])))
        ELSE Failed

\* a dictionary keeps the order of insertion; a repeated key overwrites
Insert(entries, key, val) ==
    IF \E n \in 1..Len(entries) : entries[n].k = key
    THEN [n \in 1..Len(entries) |->
            IF entries[n].k = key THEN [k |-> key, v |-> val] ELSE entries[n]]
    ELSE Append(entries, [k |-> key, v |-> val])

RECURSIVE ParseValue(_, _), ParseArray(_, _, _), ParseDict(_, _, _)

ParseValue(t, i0) ==
    LET i == SkipWs(t, i0)
    IN  IF i > Len(t) THEN Failed
        ELSE IF t[i] = "{" THEN ParseDict(t, i + 1, <<>>)
        ELSE IF t[i] = "(" THEN ParseArray(t, i + 1, <<>>)
        ELSE IF t[i] = "<" THEN ParseData(t, i + 1, <<>>)
        ELSE IF t[i] = "\"" THEN ParseQuoted(t, i + 1, <<>>)
        ELSE IF is_alnum(t[i])
             THEN LET j == TokenEnd(t, i)
                  IN  [ok |-> TRUE, v |-> BareToken(SubSeq(t, i, j - 1)), i |-> j]
        ELSE Failed

ParseArray(t, i0, acc) ==
    LET i == SkipWs(t, i0)
    IN  IF i > Len(t) THEN Failed
        ELSE IF t[i] = ")" THEN [ok |-> TRUE, v |-> [t |-> "arr", a |-> acc], i |-> i + 1]
        ELSE LET elem == ParseValue(t, i)
             IN  IF ~elem.ok THEN Failed
                 ELSE LET j == SkipWs(t, elem.i)
                      IN  IF j > Len(t) THEN Failed
                          ELSE IF t[j] = "," THEN ParseArray(t, j + 1, Append(acc, elem.v))
                          ELSE IF t[j] = ")"
                               THEN [ok |-> TRUE,
                                     v |-> [t |-> "arr", a |-> Append(acc, elem.v)],
                                     i |-> j + 1]
                          ELSE Failed

ParseDict(t, i0, acc) ==
    LET i == SkipWs(t, i0)
    IN  IF i > Len(t) THEN Failed
        ELSE IF t[i] = "}" THEN [ok |-> TRUE, v |-> [t |-> "dict", e |-> acc], i |-> i + 1]
        ELSE LET key == IF t[i] = "\"" THEN ParseQuoted(t, i + 1, <<>>)
                        ELSE IF is_alnum(t[i])
                             THEN [ok |-> TRUE,
                                   v |-> [t |-> "str", s |-> SubSeq(t, i, TokenEnd(t, i) - 1)],
                                   i |-> TokenEnd(t, i)]
                        ELSE Failed
             IN  IF ~key.ok THEN Failed
                 ELSE LET eq == SkipWs(t, key.i)
                      IN  IF eq > Len(t) \/ t[eq] # "=" THEN Failed
                          ELSE LET val == ParseValue(t, eq + 1)
                               IN  IF ~val.ok THEN Failed
                                   ELSE LET semi == SkipWs(t, val.i)
                                        IN  IF semi > Len(t) \/ t[semi] # ";" THEN Failed
                                            ELSE ParseDict(t, semi + 1,
                                                           Insert(acc, key.v.s, val.v))

parse(t) ==
    LET r == ParseValue(t, 1)
    IN  IF r.ok /\ SkipWs(t, r.i) = Len(t) + 1 THEN [ok |-> TRUE, v |-> r.v] ELSE Failed

(***************************************************************************)
(* The curly-brace codec of the typed bridge (glyphslib src/serde.rs).  A   *)
(* value of one of its types is [ty, parts]: the type and its f32           *)
(* components in the order MyIntoIterator yields them.                      *)
(***************************************************************************)
\* f32::to_string
F32ToStr(f) == FloatToStr(f)

\* value.into_iter().map(|x| x.to_string()).join(", ") between braces
CommifiedText(parts) ==
    <<"{">> \o (IF parts = <<>> THEN <<>>
                ELSE Concat([k \in 1..Len(parts) |->
                                (IF k = 1 THEN <<>> ELSE <<",", " ">>) \o F32ToStr(parts[k])]))
            \o <<"}">>

serialize_commify(s, value) == serialize_str(s, CommifiedText(value.parts))

RECURSIVE TrimStart(_, _), TrimEnd(_, _)
TrimStart(s, C) == IF s # <<>> /\ s[1] \in C THEN TrimStart(Tail(s), C) ELSE s

TrimEnd(s, C) == IF s # <<>> /\ s[Len(s)] \in C THEN TrimEnd(SubSeq(s, 1, Len(s) - 1), C) ELSE s

\* str::trim_matches and str::trim
TrimMatches(s, C) == TrimEnd(TrimStart(s, C), C)

\* str::split(sep): always at least one piece
RECURSIVE Split(_, _)
Split(s, sep) ==
    LET at == IndexOf(s, {sep})
    IN  IF at = 0 THEN <<s>>
        ELSE <<SubSeq(s, 1, at - 1)>> \o Split(SubSeq(s, at + 1, Len(s)), sep)

ParseError == [ok |-> FALSE]

Decoded(v) == [ok |-> TRUE, v |-> v]

\* try_from_parts whose Transform takes the first six of six or more parts
try_from_parts_at_least(ty, parts) ==
    CASE ty \in {"point", "zone"} ->
            IF Len(parts) < 2 THEN ParseError ELSE Decoded([ty |-> ty, parts |-> SubSeq(parts, 1, 2)])
      [] ty = "transform" ->
            IF Len(parts) < 6 THEN ParseError ELSE Decoded([ty |-> ty, parts |-> SubSeq(parts, 1, 6)])
      [] ty = "factors" -> Decoded([ty |-> ty, parts |-> parts])

\* CurlyBraceReceiver::try_from_parts of (f32, f32), AlignmentZone,
\* glyphs2::Transform and Vec<f32>
try_from_parts(ty, parts) ==
    CASE ty \in {"point", "zone"} ->
            IF Len(parts) < 2 THEN ParseError ELSE Decoded([ty |-> ty, parts |-> SubSeq(parts, 1, 2)])
      [] ty = "transform" ->
            IF Len(parts) # 6 THEN ParseError ELSE Decoded([ty |-> ty, parts |-> parts])
      [] ty = "factors" -> Decoded([ty |-> ty, parts |-> parts])

\* CurlyBraceVisitor::visit_str
visit_str(ty, value) ==
    LET pieces == Split(TrimMatches(value, {"{", "}"}), ",")
        trimmed == [k \in 1..Len(pieces) |-> TrimMatches(pieces[k], Whitespace)]
    IN  IF \E k \in 1..Len(trimmed) : ~IsF64(trimmed[k]) THEN ParseError
        ELSE try_from_parts(ty, [k \in 1..Len(trimmed) |-> F64Value(trimmed[k])])

\* CurlyBraceVisitor::visit_f64 and visit_i64: a bare number is one part
visit_f64(ty, value) == try_from_parts(ty, <<value>>)

visit_i64(ty, value) == try_from_parts(ty, <<Float(value * FloatUnit)>>)

\* deserialize_commify: deserialize_any hands the wire value to the visitor
deserialize_commify(ty, plist) ==
    CASE plist.t = "str" -> visit_str(ty, plist.s)
      [] plist.t = "float" -> visit_f64(ty, plist.f)
      [] plist.t = "int" -> visit_i64(ty, plist.i)
      [] OTHER -> ParseError

\* impl de::Error for Error: custom(msg) is Error::Parse(msg)
de_custom == [ok |-> FALSE, error |-> "Parse"]

\* impl Deserialize for glyphs2::Transform: the visitor gets the wire value,
\* a number through visit_f64 or visit_i64; every failure is a custom error
deserialize_transform(plist) ==
    LET visited == CASE plist.t = "str" -> visit_str("transform", plist.s)
                     [] plist.t = "float" -> visit_f64("transform", plist.f)
                     [] plist.t = "int" -> visit_i64("transform", plist.i)
                     [] OTHER -> ParseError
    IN  IF visited.ok THEN visited ELSE de_custom

(***************************************************************************)
(* Inputs.                                                                  *)
(***************************************************************************)
PStr(x) == [t |-> "str", s |-> x]

PInt(x) == [t |-> "int", i |-> x]

PFloat(units) == [t |-> "float", f |-> Float(units)]

PData(x) == [t |-> "data", d |-> x]

PArr(x) == [t |-> "arr", a |-> x]

PDict(x) == [t |-> "dict", e |-> x]

Tuple(x) == [t |-> "tuple", a |-> x]

Entry(key, val) == [k |-> key, v |-> val]

(***************************************************************************)
(* The crop rectangle of glyphs2 (src/serde.rs): a record of four i32.      *)
(***************************************************************************)
\* format!("{{{{{},{}}},{{{}, {}}}}}", top, left, bottom, right)
CropRectText(rect) ==
    <<"{", "{">> \o IntToStr(rect.top) \o <<",">> \o IntToStr(rect.left)
    \o <<"}", ",", "{">> \o IntToStr(rect.bottom) \o <<",", " ">> \o IntToStr(rect.right)
    \o <<"}", "}">>

\* impl Serialize for CropRect: a sequence of one element, the text
serialize_crop_rect(s, rect) ==
    seq_end(seq_record_element(serialize_seq(s),
                               serialize_str(NewSerializer, CropRectText(rect)).output))

CropRectSeparators == {"{", "}", ","}

\* chunk_by, filtered to the chunks of characters that are no separator
RECURSIVE number_groups(_)
number_groups(value) ==
    LET rest == TrimStart(value, CropRectSeparators)
        stop == IndexOf(rest, CropRectSeparators)
    IN  IF rest = <<>> THEN <<>>
        ELSE IF stop = 0 THEN <<rest>>
        ELSE <<SubSeq(rest, 1, stop - 1)>> \o number_groups(SubSeq(rest, stop, Len(rest)))

\* str::parse::<i32>: an optional sign and digits, nothing else
IsI32(s) == IsI64(s)

\* CropRectVisitor::visit_str
crop_rect_visit_str(value) ==
    LET groups == number_groups(value)
    IN  IF Len(groups) < 4 \/ \E k \in 1..4 : ~IsI32(groups[k]) THEN ParseError
        ELSE Decoded([top |-> I64Value(groups[1]), left |-> I64Value(groups[2]),
                      bottom |-> I64Value(groups[3]), right |-> I64Value(groups[4])])

\* impl Deserialize for CropRect: deserialize_str hands a string to the visitor
deserialize_crop_rect(plist) ==
    IF plist.t = "str" THEN crop_rect_visit_str(plist.s) ELSE ParseError

(***************************************************************************)
(* The code points of a glyphs2 glyph (src/serde.rs): a list of u32.        *)
(***************************************************************************)
UpperHexDigit(val) ==
    <<"0", "1", "2", "3", "4", "5", "6", "7", "8", "9", "A", "B", "C", "D", "E", "F">>[val + 1]

RECURSIVE UpperHex(_)
UpperHex(n) == IF n < 16 THEN <<UpperHexDigit(n)>>
               ELSE Append(UpperHex(n \div 16), UpperHexDigit(n % 16))

\* format!("{:04X}", n)
FormatHex04(n) == PadLeft(UpperHex(n), 4)

\* the elements serialize_comma_hexstring gives to the sequence: each group,
\* and "," after every group but the last
RECURSIVE HexElements(_)
HexElements(value) ==
    IF Len(value) = 1 THEN <<FormatHex04(value[1])>>
    ELSE <<FormatHex04(value[1]), <<",">>>> \o HexElements(Tail(value))

RECURSIVE StrElements(_, _)
StrElements(s, texts) ==
    IF texts = <<>> THEN s
    ELSE StrElements(seq_record_element(s, serialize_str(NewSerializer, Head(texts)).output),
                     Tail(texts))

serialize_comma_hexstring(s, value) ==
    IF value = <<>> THEN serialize_none(s)
    ELSE IF Len(value) = 1 THEN serialize_str(s, FormatHex04(value[1]))
    ELSE seq_end(StrElements(serialize_seq(s), HexElements(value)))

RECURSIVE HexToNat(_)
HexToNat(s) == IF s = <<>> THEN 0
               ELSE 16 * HexToNat(SubSeq(s, 1, Len(s) - 1)) + HexValue(s[Len(s)])

\* u32::from_str_radix(s, 16)
from_str_radix(s) ==
    LET digits == IF s # <<>> /\ s[1] = "+" THEN Tail(s) ELSE s
    IN  IF digits = <<>> \/ Len(digits) > 7 \/ \E k \in 1..Len(digits) : digits[k] \notin HexDigits
        THEN ParseError
        ELSE Decoded(HexToNat(digits))

\* CommaHexStringVisitor::visit_str
comma_hex_visit_str(v) ==
    LET codepoints == Split(v, ",")
        parsed == [k \in 1..Len(codepoints) |-> from_str_radix(codepoints[k])]
    IN  IF \E k \in 1..Len(parsed) : ~parsed[k].ok THEN ParseError
        ELSE Decoded([k \in 1..Len(parsed) |-> parsed[k].v])

\* CommaHexStringVisitor::visit_i64: the integer is formatted in base 16 and
\* read back in base 16
comma_hex_visit_i64(value) ==
    IF value < 0 THEN ParseError
    ELSE LET n == from_str_radix(FormatHex04(value))
         IN  IF n.ok THEN Decoded(<<n.v>>) ELSE ParseError

\* deserialize_comma_hexstring: deserialize_any hands the wire value to the
\* visitor, which takes strings and integers
deserialize_comma_hexstring(plist) ==
    CASE plist.t = "str" -> comma_hex_visit_str(plist.s)
      [] plist.t = "int" -> comma_hex_visit_i64(plist.i)
      [] OTHER -> ParseError

(***************************************************************************)
(* The code points of a glyphs3 glyph: SerializeAsTuple (src/serde.rs) on   *)
(* encoding, one-or-many on decoding.                                       *)
(***************************************************************************)
serialize_u64(s, v) == Tok(s, NatToStr(v))

\* SerializeAsTuple that writes a tuple whatever the length
serialize_as_tuple_always(s, source) ==
    tuple_end(TupleElements(serialize_tuple(s),
                            [k \in 1..Len(source) |-> [t |-> "int", i |-> source[k]]]))

\* SerializeAsTuple::serialize_as
serialize_as_tuple(s, source) ==
    IF Len(source) = 1 THEN serialize_u64(s, source[1])
    ELSE tuple_end(TupleElements(serialize_tuple(s),
                                 [k \in 1..Len(source) |-> [t |-> "int", i |-> source[k]]]))

\* OneOrMany<u32>: one value, or a list of them
one_or_many(plist) ==
    CASE plist.t = "int" -> IF plist.i >= 0 THEN Decoded(<<plist.i>>) ELSE ParseError
      [] plist.t = "arr" ->
            IF \A k \in 1..Len(plist.a) : plist.a[k].t = "int" /\ plist.a[k].i >= 0
            THEN Decoded([k \in 1..Len(plist.a) |-> plist.a[k].i])
            ELSE ParseError
      [] OTHER -> ParseError

(***************************************************************************)
(* Positions in the text (openstep-plist src/error.rs).                     *)
(***************************************************************************)
RECURSIVE from_pos_loop_no_reset(_, _, _, _, _), from_pos_loop(_, _, _, _, _)

\* the loop of from_pos that keeps counting columns across a newline
from_pos_loop_no_reset(bytes, pos, i, line, col) ==
    IF i < pos /\ i < Len(bytes)
    THEN IF bytes[i + 1] = "\n" THEN from_pos_loop_no_reset(bytes, pos, i + 1, line + 1, col + 1)
         ELSE from_pos_loop_no_reset(bytes, pos, i + 1, line, col + 1)
    ELSE [line |-> line, column |-> col]

\* while i < pos && i < bytes.len()
from_pos_loop(bytes, pos, i, line, col) ==
    IF i < pos /\ i < Len(bytes)
    THEN IF bytes[i + 1] = "\n" THEN from_pos_loop(bytes, pos, i + 1, line + 1, 1)
         ELSE from_pos_loop(bytes, pos, i + 1, line, col + 1)
    ELSE [line |-> line, column |-> col]

\* LineColumn::from_pos
from_pos(text, pos) == from_pos_loop(text, pos, 0, 1, 1)

\* Error::at that leaves InvalidUnicodeEscapeInternal as it is
at_keeps_unicode_escape(self, text, pos) ==
    LET lc == from_pos(text, pos)
    IN  CASE self.kind = "BadDataInternal" -> [kind |-> "BadData", lc |-> lc]
          [] self.kind = "UnknownEscapeInternal" -> [kind |-> "UnknownEscape", lc |-> lc]
          [] self.kind = "NotAStringInternal" ->
                [kind |-> "NotAString", token_name |-> self.token_name, lc |-> lc]
          [] OTHER -> self

\* Error::at
at(self, text, pos) ==
    LET lc == from_pos(text, pos)
    IN  CASE self.kind = "BadDataInternal" -> [kind |-> "BadData", lc |-> lc]
          [] self.kind = "UnknownEscapeInternal" -> [kind |-> "UnknownEscape", lc |-> lc]
          [] self.kind = "InvalidUnicodeEscapeInternal" ->
                [kind |-> "InvalidUnicodeEscape", seq |-> self.seq, lc |-> lc]
          [] self.kind = "NotAStringInternal" ->
                [kind |-> "NotAString", token_name |-> self.token_name, lc |-> lc]
          [] OTHER -> self

(***************************************************************************)
(* File names of glyphs (glyphslib src/utils.rs).                           *)
(***************************************************************************)
\* the members of ILLEGAL_CHARACTERS that a string of the model can hold
ILLEGAL_CHARACTERS ==
    {"\"", "*", "+", "/", ":", "<", ">", "?", "[", "\\", "]", "|", "\t", "\n", "\r"}

RESERVED_FILE_NAMES ==
    {<<"c", "o", "n">>,
     <<"p", "r", "n">>,
     <<"a", "u", "x">>,
     <<"c", "l", "o", "c", "k", "$">>,
     <<"n", "u", "l">>,
     <<"c", "o", "m", "1">>,
     <<"c", "o", "m", "2">>,
     <<"c", "o", "m", "3">>,
     <<"c", "o", "m", "4">>,
     <<"l", "p", "t", "1">>,
     <<"l", "p", "t", "2">>,
     <<"l", "p", "t", "3">>,
     <<"a", ":", "-", "z", ":">>}

MAX_FILE_NAME_LENGTH == 255

UpperCase == <<"A", "B", "C", "D", "E", "F", "G", "H", "I", "J", "K", "L", "M",
               "N", "O", "P", "Q", "R", "S", "T", "U", "V", "W", "X", "Y", "Z">>

LowerCase == <<"a", "b", "c", "d", "e", "f", "g", "h", "i", "j", "k", "l", "m",
               "n", "o", "p", "q", "r", "s", "t", "u", "v", "w", "x", "y", "z">>

\* char::to_lowercase
to_lowercase(c) ==
    IF \E k \in 1..Len(UpperCase) : UpperCase[k] = c
    THEN LowerCase[CHOOSE k \in 1..Len(UpperCase) : UpperCase[k] = c]
    ELSE c

\* str::to_lowercase
str_to_lowercase(text) == [k \in 1..Len(text) |-> to_lowercase(text[k])]

\* replace an initial period with an _
replace_initial_period(name) ==
    IF name # <<>> /\ name[1] = "." THEN <<"_">> \o Tail(name) ELSE name

RECURSIVE filter_username_keeps_illegal(_), filter_username(_)

\* the filter that copies illegal characters
filter_username_keeps_illegal(user_name) ==
    IF user_name = <<>> THEN <<>>
    ELSE IF Len(user_name) = 1
    THEN LET c == user_name[1]
         IN  IF to_lowercase(c) # c THEN <<c, "_">> ELSE <<c>>
    ELSE filter_username_keeps_illegal(SubSeq(user_name, 1, Len(user_name) \div 2))
         \o filter_username_keeps_illegal(SubSeq(user_name, Len(user_name) \div 2 + 1,
                                                 Len(user_name)))

\* the loop over user_name.chars(): what is pushed for each character, in
\* the order of the characters (the first half of the name, then the second)
filter_username(user_name) ==
    IF user_name = <<>> THEN <<>>
    ELSE IF Len(user_name) = 1
    THEN LET c == user_name[1]
         IN  IF c \in ILLEGAL_CHARACTERS THEN <<"_">>
             ELSE IF to_lowercase(c) # c THEN <<c, "_">>
             ELSE <<c>>
    ELSE filter_username(SubSeq(user_name, 1, Len(user_name) \div 2))
         \o filter_username(SubSeq(user_name, Len(user_name) \div 2 + 1, Len(user_name)))

\* char::len_utf8, on the characters of the model
len_utf8(c) == IF c = NonAscii THEN 2 ELSE 1

\* str::len, in bytes
byte_len(text) == Len(text) + Len(SelectSeq(text, LAMBDA c : len_utf8(c) = 2))

\* str::is_char_boundary: index is the end of a prefix of characters
is_char_boundary(text, index) ==
    \E k \in 0..Len(text) : k <= index /\ byte_len(SubSeq(text, 1, k)) = index

\* the outcome of a call that panics
Panicked == <<"panicked">>

\* String::truncate: no effect when new_len is past the end, a panic when
\* new_len is not on a char boundary
truncate(text, new_len) ==
    IF new_len > byte_len(text) THEN text
    ELSE IF ~is_char_boundary(text, new_len) THEN Panicked
    ELSE SubSeq(text, 1, CHOOSE k \in 0..Len(text) :
                             k <= new_len /\ byte_len(SubSeq(text, 1, k)) = new_len)

\* the reserved parts prefixed
reserved_prefixed(parts) ==
    [k \in 1..Len(parts) |->
        IF str_to_lowercase(parts[k]) \in RESERVED_FILE_NAMES THEN <<"_">> \o parts[k]
        ELSE parts[k]]

user_name_to_file_name(name) ==
    LET filtered_username == truncate(filter_username(replace_initial_period(name)),
                                      MAX_FILE_NAME_LENGTH)
    IN  IF filtered_username = Panicked THEN Panicked
        ELSE JoinText(reserved_prefixed(Split(filtered_username, ".")), <<".">>)

(***************************************************************************)
(* The typed font document (glyphslib src/lib.rs, glyphs2.rs, glyphs3.rs,   *)
(* common.rs), on a fragment of the two schemas: the fields below, and a    *)
(* glyph list that is empty.  The decoding of a wire value into a field's   *)
(* type belongs to the typed bridge.                                        *)
(***************************************************************************)
\* the wire keys (serde rename) of the fields
appVersion == <<".">> \o <<"a", "p", "p", "V", "e", "r", "s", "i", "o", "n">>

formatVersion == <<".">> \o <<"f", "o", "r", "m", "a", "t", "V", "e", "r", "s", "i", "o", "n">>

familyName == <<"f", "a", "m", "i", "l", "y", "N", "a", "m", "e">>

glyphs == <<"g", "l", "y", "p", "h", "s">>

glyphname == <<"g", "l", "y", "p", "h", "n", "a", "m", "e">>

layers == <<"l", "a", "y", "e", "r", "s">>

DisplayStrings == <<"D", "i", "s", "p", "l", "a", "y", "S", "t", "r", "i", "n", "g", "s">>

keepAlternatesTogether == <<"k", "e", "e", "p", "A", "l", "t", "e", "r", "n", "a", "t", "e", "s", "T", "o", "g", "e", "t", "h", "e", "r">>

unitsPerEm == <<"u", "n", "i", "t", "s", "P", "e", "r", "E", "m">>

versionMajor == <<"v", "e", "r", "s", "i", "o", "n", "M", "a", "j", "o", "r">>

versionMinor == <<"v", "e", "r", "s", "i", "o", "n", "M", "i", "n", "o", "r">>

contains_key(d, key) == \E n \in 1..Len(d.e) : d.e[n].k = key

Get(d, key) == d.e[CHOOSE n \in 1..Len(d.e) : d.e[n].k = key].v

is_glyphs3(plist) == plist.t = "dict" /\ contains_key(plist, formatVersion)

version_two == 2

\* is_default that never holds
is_default_never(v, default) == FALSE

is_default(v, default) == v = default

\* a field of a record, decoded into String, i32, bool or Vec<Glyph>: the
\* wire value decoded if the key is present, otherwise what the field
\* declares for its absence
DecodeString(d, key, absent) ==
    IF ~contains_key(d, key) THEN absent
    ELSE IF Get(d, key).t = "str" THEN Decoded(Get(d, key).s) ELSE ParseError

DecodeI32(d, key, absent) ==
    IF ~contains_key(d, key) THEN absent
    ELSE IF Get(d, key).t = "int" THEN Decoded(Get(d, key).i) ELSE ParseError

DecodeBool(d, key, absent) ==
    IF ~contains_key(d, key) THEN absent
    ELSE IF Get(d, key).t = "int" /\ Get(d, key).i \in {0, 1} THEN Decoded(Get(d, key).i = 1)
    ELSE ParseError

\* derive(Deserialize) of Glyph: glyphname and layers are required; the
\* glyphs of the model have no layers and none of the optional fields
DeserializeGlyph(plist) ==
    IF /\ plist.t = "dict"
       /\ contains_key(plist, glyphname) /\ Get(plist, glyphname).t = "str"
       /\ contains_key(plist, layers) /\ Get(plist, layers) = [t |-> "arr", a |-> <<>>]
    THEN Decoded([name |-> Get(plist, glyphname).s])
    ELSE ParseError

DecodeGlyphs(d, key, absent) ==
    IF ~contains_key(d, key) THEN absent
    ELSE IF /\ Get(d, key).t = "arr"
            /\ \A k \in 1..Len(Get(d, key).a) : DeserializeGlyph(Get(d, key).a[k]).ok
         THEN Decoded([k \in 1..Len(Get(d, key).a) |-> DeserializeGlyph(Get(d, key).a[k]).v])
         ELSE ParseError

DecodeStrings(d, key, absent) ==
    IF ~contains_key(d, key) THEN absent
    ELSE IF /\ Get(d, key).t = "arr"
            /\ \A k \in 1..Len(Get(d, key).a) : Get(d, key).a[k].t = "str"
         THEN Decoded([k \in 1..Len(Get(d, key).a) |-> Get(d, key).a[k].s])
         ELSE ParseError

MissingField == ParseError

\* common::Version, both fields with a default
DeserializeVersion(d) ==
    LET major == DecodeI32(d, versionMajor, Decoded(0))
        minor == DecodeI32(d, versionMinor, Decoded(0))
    IN  IF major.ok /\ minor.ok THEN Decoded([major |-> major.v, minor |-> minor.v])
        ELSE ParseError

\* the fields the two documents share, then those in which they differ
DeserializeFont(d, format, format_version) ==
    LET app_version == DecodeString(d, appVersion, Decoded(<<>>))
        display_strings == DecodeStrings(d, DisplayStrings, Decoded(<<>>))
        family_name == DecodeString(d, familyName, MissingField)
        glyph_list == DecodeGlyphs(d, glyphs, Decoded(<<>>))
        keep == DecodeBool(d, keepAlternatesTogether, Decoded(FALSE))
        units_per_em == DecodeI32(d, unitsPerEm, MissingField)
        version == DeserializeVersion(d)
    IN  IF /\ app_version.ok /\ format_version.ok /\ display_strings.ok
           /\ family_name.ok /\ glyph_list.ok /\ keep.ok /\ units_per_em.ok /\ version.ok
        THEN Decoded([format |-> format,
                      app_version |-> app_version.v,
                      format_version |-> format_version.v,
                      display_strings |-> display_strings.v,
                      family_name |-> family_name.v,
                      glyphs |-> glyph_list.v,
                      keep_alternates_together |-> keep.v,
                      units_per_em |-> units_per_em.v,
                      version |-> version.v])
        ELSE ParseError

DeserializeGlyphs2(d) == DeserializeFont(d, "Glyphs2", Decoded(0))

DeserializeGlyphs3(d) ==
    DeserializeFont(d, "Glyphs3", DecodeI32(d, formatVersion, Decoded(version_two)))

\* Font::from_plist
from_plist(plist) ==
    IF plist.t # "dict" THEN ParseError
    ELSE IF is_glyphs3(plist) THEN DeserializeGlyphs3(plist) ELSE DeserializeGlyphs2(plist)

\* Font::load_str
load_str(raw_content) ==
    LET plist == parse(raw_content)
    IN  IF plist.ok THEN from_plist(plist.v) ELSE ParseError

\* an entry of the encoded record unless its skip_serializing_if holds
Emit(skip, key, val) == IF skip THEN <<>> ELSE <<Entry(key, val)>>

Bool(b) == [t |-> "bool", b |-> b]

\* the flattened Version: both entries, or neither when it is the default
SerializeVersion(version) ==
    IF is_default(version, [major |-> 0, minor |-> 0]) THEN <<>>
    ELSE <<Entry(versionMajor, [t |-> "int", i |-> version.major]),
           Entry(versionMinor, [t |-> "int", i |-> version.minor])>>

\* a list of strings as its wire value
Strs(list) == [t |-> "arr", a |-> [k \in 1..Len(list) |-> [t |-> "str", s |-> list[k]]]]

\* derive(Serialize) of Glyph with its optional fields absent (both formats)
SerializeGlyph(glyph) ==
    [t |-> "dict", e |-> <<Entry(glyphname, [t |-> "str", s |-> glyph.name]),
                           Entry(layers, [t |-> "arr", a |-> <<>>])>>]

SerializeGlyphList(list) == [t |-> "arr", a |-> [k \in 1..Len(list) |-> SerializeGlyph(list[k])]]

\* derive(Serialize) of Glyphs2: the entries in the order of declaration
SerializeGlyphs2(font) ==
    Emit(font.app_version = <<>>, appVersion, [t |-> "str", s |-> font.app_version])
    \o Emit(font.display_strings = <<>>, DisplayStrings, Strs(font.display_strings))
    \o Emit(FALSE, familyName, [t |-> "str", s |-> font.family_name])
    \o Emit(FALSE, glyphs, SerializeGlyphList(font.glyphs))
    \o Emit(is_default(font.keep_alternates_together, FALSE), keepAlternatesTogether,
            Bool(font.keep_alternates_together))
    \o Emit(FALSE, unitsPerEm, [t |-> "int", i |-> font.units_per_em])
    \o SerializeVersion(font.version)

\* Glyphs3 with .formatVersion left out when it is the default
SerializeGlyphs3_skips_default_version(font) ==
    Emit(font.app_version = <<>>, appVersion, [t |-> "str", s |-> font.app_version])
    \o Emit(is_default(font.format_version, version_two), formatVersion,
            [t |-> "int", i |-> font.format_version])
    \o Emit(is_default(font.display_strings, <<>>), DisplayStrings, Strs(font.display_strings))
    \o Emit(FALSE, familyName, [t |-> "str", s |-> font.family_name])
    \o Emit(font.glyphs = <<>>, glyphs, SerializeGlyphList(font.glyphs))
    \o Emit(is_default(font.keep_alternates_together, FALSE), keepAlternatesTogether,
            Bool(font.keep_alternates_together))
    \o Emit(FALSE, unitsPerEm, [t |-> "int", i |-> font.units_per_em])
    \o SerializeVersion(font.version)

\* derive(Serialize) of Glyphs3
SerializeGlyphs3(font) ==
    Emit(font.app_version = <<>>, appVersion, [t |-> "str", s |-> font.app_version])
    \o Emit(FALSE, formatVersion, [t |-> "int", i |-> font.format_version])
    \o Emit(is_default(font.display_strings, <<>>), DisplayStrings, Strs(font.display_strings))
    \o Emit(FALSE, familyName, [t |-> "str", s |-> font.family_name])
    \o Emit(font.glyphs = <<>>, glyphs, SerializeGlyphList(font.glyphs))
    \o Emit(is_default(font.keep_alternates_together, FALSE), keepAlternatesTogether,
            Bool(font.keep_alternates_together))
    \o Emit(FALSE, unitsPerEm, [t |-> "int", i |-> font.units_per_em])
    \o SerializeVersion(font.version)

\* Font::to_string, on the serializer s
font_to_string(s, font) ==
    Serialize(s, [t |-> "dict",
                  e |-> IF font.format = "Glyphs2" THEN SerializeGlyphs2(font)
                        ELSE SerializeGlyphs3(font)])

(***************************************************************************)
(* Saving (glyphslib src/lib.rs).  The file system is the set of            *)
(* directories and the set of files with their contents; a path is the      *)
(* sequence of its components below the working directory.                  *)
(***************************************************************************)
EmptyDisk == [dirs |-> {}, files |-> {}]

\* a value computed once and handed to what uses it
With(v, Use(_)) == Use(v)

is_dir(fsys, path) == path = <<>> \/ path \in fsys.dirs

is_file(fsys, path) == \E f \in fsys.files : f.path = path

parent(path) == SubSeq(path, 1, Len(path) - 1)

\* Path::join
join(path, component) == Append(path, component)

IoOk(fsys) == [ok |-> TRUE, disk |-> fsys]

IoErr(fsys) == [ok |-> FALSE, disk |-> fsys]

\* fs::create_dir_all: the missing directories from the outermost on, until a
\* component is a file
create_dir_all(fsys, path) ==
    LET blocked == {k \in 1..Len(path) : is_file(fsys, SubSeq(path, 1, k))}
        made == {SubSeq(path, 1, k) : k \in {j \in 1..Len(path) : \A b \in blocked : j < b}}
        after == [fsys EXCEPT !.dirs = @ \cup made]
    IN  IF blocked = {} THEN IoOk(after) ELSE IoErr(after)

\* fs::write: the file created or replaced; its directory must exist
fs_write(fsys, path, contents) ==
    IF is_dir(fsys, parent(path)) /\ ~is_dir(fsys, path)
    THEN IoOk([fsys EXCEPT !.files = {f \in @ : f.path # path}
                                     \cup {[path |-> path, contents |-> contents]}])
    ELSE IoErr(fsys)

\* Path::extension of the last component
extension(path) ==
    LET pieces == Split(path[Len(path)], ".")
    IN  IF Len(pieces) = 1 \/ (Len(pieces) = 2 /\ pieces[1] = <<>>) THEN [some |-> FALSE]
        ELSE [some |-> TRUE, v |-> pieces[Len(pieces)]]

glyphspackage == <<"g", "l", "y", "p", "h", "s", "p", "a", "c", "k", "a", "g", "e">>

DotGlyph == <<".", "g", "l", "y", "p", "h">>

OrderPlist == <<"o", "r", "d", "e", "r", ".", "p", "l", "i", "s", "t">>

UIStatePlist == <<"U", "I", "S", "t", "a", "t", "e", ".", "p", "l", "i", "s", "t">>

FontinfoPlist == <<"f", "o", "n", "t", "i", "n", "f", "o", ".", "p", "l", "i", "s", "t">>

displayStrings == <<"d", "i", "s", "p", "l", "a", "y", "S", "t", "r", "i", "n", "g", "s">>

\* the loop over glyphs3.glyphs: one file for each glyph, until a write fails
RECURSIVE write_glyphs(_, _, _)
write_glyphs(fsys, glyphs_dir, glyph_list) ==
    IF glyph_list = <<>> THEN IoOk(fsys)
    ELSE With(fs_write(fsys, join(glyphs_dir, user_name_to_file_name(Head(glyph_list).name)
                                               \o DotGlyph),
                       to_string(SerializeGlyph(Head(glyph_list)))),
              LAMBDA written :
                IF written.ok THEN write_glyphs(written.disk, glyphs_dir, Tail(glyph_list))
                ELSE written)

\* UIState.plist, written when there are display strings
write_ui_state(fsys, glyphs_file, font) ==
    IF font.display_strings # <<>>
    THEN fs_write(fsys, join(glyphs_file, UIStatePlist),
                  to_string(PDict(<<Entry(displayStrings, Strs(font.display_strings))>>)))
    ELSE IoOk(fsys)

\* the branch of save_package for Font::Glyphs3; every `?` of the code is a
\* return of the failed call
write_package(fsys, glyphs_file, font) ==
    With(create_dir_all(fsys, join(glyphs_file, glyphs)), LAMBDA made :
    IF ~made.ok THEN made
    ELSE With(write_glyphs(made.disk, join(glyphs_file, glyphs), font.glyphs),
              LAMBDA glyph_files :
    IF ~glyph_files.ok THEN glyph_files
    ELSE With(fs_write(glyph_files.disk, join(glyphs_file, OrderPlist),
                       TrimMatches(to_string(Strs([k \in 1..Len(font.glyphs) |->
                                                      font.glyphs[k].name])),
                                   Whitespace)),
              LAMBDA order :
    IF ~order.ok THEN order
    ELSE With(write_ui_state(order.disk, glyphs_file, font), LAMBDA ui_state :
    IF ~ui_state.ok THEN ui_state
    ELSE fs_write(ui_state.disk, join(glyphs_file, FontinfoPlist),
                  Concat(font_to_string(NewSerializer,
                                        [font EXCEPT !.glyphs = <<>>,
                                                     !.display_strings = <<>>]).output))))))

\* save_package without the test of the format
save_package_any_format(fsys, glyphs_file, font) == write_package(fsys, glyphs_file, font)

\* Font::save_package
save_package(fsys, glyphs_file, font) ==
    IF font.format = "Glyphs3" THEN write_package(fsys, glyphs_file, font)
    ELSE IoErr(fsys)

\* Font::save
save(fsys, path, font) ==
    IF extension(path) = [some |-> TRUE, v |-> glyphspackage] THEN save_package(fsys, path, font)
    ELSE fs_write(fsys, path, Concat(font_to_string(NewSerializer, font).output))

(***************************************************************************)
(* Loading a package from its entries (glyphslib src/lib.rs): the entries   *)
(* are the pairs [path, contents] of a map from paths to texts.             *)
(***************************************************************************)
\* str::replace of one character
ReplaceChar(text, from, to) == [k \in 1..Len(text) |-> IF text[k] = from THEN to ELSE text[k]]

\* str::trim_start_matches of a pattern: every repetition of it at the start
RECURSIVE trim_start_matches(_, _)
trim_start_matches(text, pattern) ==
    IF Len(text) >= Len(pattern) /\ SubSeq(text, 1, Len(pattern)) = pattern
    THEN trim_start_matches(SubSeq(text, Len(pattern) + 1, Len(text)), pattern)
    ELSE text

\* the normalisation that keeps backslashes
normalize_path_keeps_backslash(path) ==
    trim_start_matches(trim_start_matches(path, <<".", "/">>), <<"/">>)

\* path.replace('\\', "/").trim_start_matches("./").trim_start_matches('/')
normalize_path(path) ==
    trim_start_matches(trim_start_matches(ReplaceChar(path, "\\", "/"), <<".", "/">>), <<"/">>)

normalized_entries(entries) ==
    {[path |-> normalize_path(e.path), contents |-> e.contents] : e \in entries}

\* HashMap::get
has_entry(entries, path) == \E e \in entries : e.path = path

entry(entries, path) == (CHOOSE e \in entries : e.path = path).contents

GlyphsSlash == <<"g", "l", "y", "p", "h", "s", "/">>

glyph_path(name) == GlyphsSlash \o user_name_to_file_name(name) \o DotGlyph

\* the loop over glyph_order: the parsed glyph files of the names that have one
RECURSIVE read_glyphs(_, _, _)
read_glyphs(entries, glyph_order, acc) ==
    IF glyph_order = <<>> THEN Decoded(acc)
    ELSE LET glyph == Head(glyph_order)
         IN  IF glyph.t = "str" /\ has_entry(entries, glyph_path(glyph.s))
             THEN With(parse(entry(entries, glyph_path(glyph.s))), LAMBDA glyph_plist :
                    IF glyph_plist.ok
                    THEN read_glyphs(entries, Tail(glyph_order), Append(acc, glyph_plist.v))
                    ELSE ParseError)
             ELSE read_glyphs(entries, Tail(glyph_order), acc)

\* toplevel with DisplayStrings from UIState.plist, when there is one
with_ui_state(entries, toplevel) ==
    IF has_entry(entries, UIStatePlist)
    THEN With(parse(entry(entries, UIStatePlist)), LAMBDA ui_state_plist :
            IF ui_state_plist.ok /\ ui_state_plist.v.t = "dict"
            THEN Decoded(Insert(toplevel, DisplayStrings,
                                IF contains_key(ui_state_plist.v, displayStrings)
                                THEN Get(ui_state_plist.v, displayStrings)
                                ELSE [t |-> "arr", a |-> <<>>]))
            ELSE ParseError)
    ELSE Decoded(toplevel)

NoDocument == [reached |-> FALSE]

\* Font::load_package_entries: the document handed to from_plist, and the
\* font; every `?` of the code is a return of NoDocument
load_package_entries(entries) ==
    With(normalized_entries(entries), LAMBDA normalized :
    IF ~has_entry(normalized, FontinfoPlist) THEN NoDocument
    ELSE With(parse(entry(normalized, FontinfoPlist)), LAMBDA fontinfo :
    IF ~fontinfo.ok \/ fontinfo.v.t # "dict" THEN NoDocument
    ELSE With(with_ui_state(normalized, fontinfo.v.e), LAMBDA toplevel :
    IF ~toplevel.ok THEN NoDocument
    ELSE IF ~has_entry(normalized, OrderPlist) THEN NoDocument
    ELSE With(parse(entry(normalized, OrderPlist)), LAMBDA glyph_order :
    IF ~glyph_order.ok \/ glyph_order.v.t # "arr" THEN NoDocument
    ELSE With(read_glyphs(normalized, glyph_order.v.a, <<>>), LAMBDA glyph_list :
    IF ~glyph_list.ok THEN NoDocument
    ELSE With([t |-> "dict",
               e |-> Insert(toplevel.v, glyphs, [t |-> "arr", a |-> glyph_list.v])],
              LAMBDA document :
    [reached |-> TRUE, document |-> document, font |-> from_plist(document)]))))))

\* fs::read_to_string
read_to_string(fsys, path) ==
    IF is_file(fsys, path)
    THEN Decoded((CHOOSE f \in fsys.files : f.path = path).contents)
    ELSE [ok |-> FALSE]

\* the loop of load_package over glyph_order: an entry for each name that is
\* a string and whose glyph file can be read
glyph_file_of(glyphs_file, name) ==
    join(join(glyphs_file, glyphs), user_name_to_file_name(name) \o DotGlyph)

glyph_entries(fsys, glyphs_file, glyph_order) ==
    {[path |-> glyph_path(glyph_order[k].s),
      contents |-> read_to_string(fsys, glyph_file_of(glyphs_file, glyph_order[k].s)).v] :
        k \in {j \in 1..Len(glyph_order) :
                 /\ glyph_order[j].t = "str"
                 /\ read_to_string(fsys, glyph_file_of(glyphs_file, glyph_order[j].s)).ok}}

\* Font::load_package
load_package(fsys, glyphs_file) ==
    With(read_to_string(fsys, join(glyphs_file, FontinfoPlist)), LAMBDA fontinfo :
    IF ~fontinfo.ok THEN NoDocument
    ELSE With(read_to_string(fsys, join(glyphs_file, UIStatePlist)), LAMBDA ui_state :
         With(read_to_string(fsys, join(glyphs_file, OrderPlist)), LAMBDA glyph_order_plist :
    IF ~glyph_order_plist.ok THEN NoDocument
    ELSE With(parse(glyph_order_plist.v), LAMBDA glyph_order :
    IF ~glyph_order.ok \/ glyph_order.v.t # "arr" THEN NoDocument
    ELSE load_package_entries(
            {[path |-> FontinfoPlist, contents |-> fontinfo.v]}
            \cup (IF ui_state.ok THEN {[path |-> UIStatePlist, contents |-> ui_state.v]}
                  ELSE {})
            \cup {[path |-> OrderPlist, contents |-> glyph_order_plist.v]}
            \cup glyph_entries(fsys, glyphs_file, glyph_order.v.a))))))

StrAlphabet == {"a", "1", " ", "\"", "\\", "\n", "_", NonAscii}

PathString == <<"f", "i", "l", "e", "s", "/", "L", "i", "n", "k", "e", "d", "F", "o",
                "n", "t", "v", "3", ".", "g", "l", "y", "p", "h", "s">>

Strings == SeqsUpTo(StrAlphabet, MaxStrLen)
           \cup {PathString, <<"a", "b", "c", "1", "2", "3">>, <<"1", "2", "3">>}

\* 1.00004999 and its neighbours, in 10^-8 units
FloatSamples == {0, 100000000, 150000000, 100004999, 12345678, -50000000, -299996000,
                 4000, -4000, 314159000, 1234560000, 99995001, 99994999, -25000000}

SampleBytes == {0, 1, 15, 16, 171, 255}

DataInputs == {<<b>> : b \in 0..255} \cup SeqsUpTo(SampleBytes, MaxDataLen)

LeafValues ==
    {PStr(<<>>), PStr(<<"a">>), PStr(<<"1", "2">>), PStr(<<"a", " ", "\"">>),
     PStr(<<"\\", "n">>), PInt(0), PInt(-12), PFloat(150000000), PFloat(-25000000),
     PFloat(100000000), PFloat(12345678), PData(<<>>), PData(<<0, 255>>)}

SeqLeaves == {PStr(<<"a">>), PStr(<<"1", "2">>), PStr(<<"n", "a", "n">>), PInt(7),
              PFloat(150000000), PFloat(100000000), PData(<<171>>)}

Keys == {<<"a">>, <<"1">>, <<"k", " ">>}

Distinct(e) == \A m, n \in 1..Len(e) : m # n => e[m].k # e[n].k

EntriesOver(vals, n) ==
    {e \in SeqsUpTo({Entry(key, val) : key \in Keys, val \in vals}, n) : Distinct(e)}

FlatArrays == {PArr(a) : a \in SeqsUpTo(SeqLeaves, MaxSeqLen)}

FlatDicts == {PDict(e) : e \in EntriesOver(SeqLeaves, MaxDictLen)}

Nested == {PArr(<<>>), PArr(<<PInt(1), PInt(2)>>), PArr(<<PStr(<<"a">>)>>),
           PDict(<<>>), PDict(<<Entry(<<"a">>, PInt(1))>>),
           PArr(<<PDict(<<Entry(<<"b">>, PFloat(100000000))>>)>>),
           PInt(3), PStr(<<"x">>)}

NestedArrays == {PArr(a) : a \in SeqsUpTo(Nested, MaxNestLen)}

NestedDicts == {PDict(e) : e \in EntriesOver(Nested, MaxNestLen)}

PlistValues == LeafValues \cup FlatArrays \cup FlatDicts \cup NestedArrays \cup NestedDicts

\* fixed-size tuples of the typed bridge: coordinate pairs, nodes and nestings
TupleElems == {PInt(1), PFloat(150000000), PFloat(-25000000), PStr(<<"l">>),
               PStr(<<"c", "s">>), PDict(<<Entry(<<"a">>, PInt(1))>>),
               Tuple(<<>>), Tuple(<<PInt(1), PInt(2)>>), PArr(<<PInt(1)>>)}

Tuples == {Tuple(a) : a \in SeqsUpTo(TupleElems, MaxSeqLen)}

Structs == {[t |-> "struct", e |-> d.e] : d \in NestedDicts}

TupleStruct(fields) == [t |-> "tuple_struct", a |-> fields]

FieldValues == {PInt(1), PStr(<<"a">>), PArr(<<PInt(1), PInt(2)>>), Tuple(<<PInt(1), PInt(2)>>)}

FlatTupleStructs == {TupleStruct(a) : a \in SeqsUpTo(FieldValues, MaxFields)}

\* tuple structs, alone, as elements, as entries and nested
TupleStructs ==
    FlatTupleStructs
    \cup {PArr(<<x, y>>) : x \in FlatTupleStructs, y \in FieldValues}
    \cup {PDict(<<Entry(<<"a">>, x), Entry(<<"b">>, y)>>) : x \in FlatTupleStructs, y \in FieldValues}
    \cup {TupleStruct(<<x, y>>) : x \in FlatTupleStructs, y \in FieldValues}

F32Samples == {Float(0), Float(100000000), Float(-150000000), Float(25000000), Float(850000000)}

TransformSamples == {Float(0), Float(100000000), Float(-150000000)}

CurlyValues ==
    {[ty |-> ty, parts |-> <<x, y>>] : ty \in {"point", "zone"}, x \in F32Samples, y \in F32Samples}
    \cup {[ty |-> "transform", parts |-> <<a, b, c, d, x, y>>] :
            a \in TransformSamples, b \in {Float(0)}, c \in TransformSamples,
            d \in {Float(100000000)}, x \in TransformSamples, y \in F32Samples}
    \cup {[ty |-> "factors", parts |-> f] : f \in SeqsUpTo(F32Samples, MaxFactors)}

(***************************************************************************)
(* Defaults and the predicates that omit a field (src/serde.rs), and the    *)
(* hand-written serializer of glyphs3::Layer on three of its fields.        *)
(***************************************************************************)
\* f32 ==: the two zeros are equal
FloatEq(a, b) == a.mag = b.mag /\ (a.neg = b.neg \/ a.mag = 0)

is_false(b) == ~b

is_true(b) == b

bool_true == TRUE

scale_unit == <<Float(FloatUnit), Float(FloatUnit)>>

is_scale_unit(scale) == FloatEq(scale[1], Float(FloatUnit)) /\ FloatEq(scale[2], Float(FloatUnit))

\* is_one_hundred that takes zero for the default
is_one_hundred_zero(value) == value = 0

is_one_hundred(value) == value = 100

one_hundred == 100

is_empty(v) == v = <<>>

\* the attribute pairs of the schemas: what skip_serializing_if names, and
\* what default names (the type's Default when it names nothing)
SkipIf(attr, v) ==
    CASE attr = "is_true" -> is_true(v.b)
      [] attr = "is_false" -> is_false(v.b)
      [] attr = "is_one_hundred" -> is_one_hundred(v.i)
      [] attr = "is_scale_unit" -> is_scale_unit(v.pair)
      [] attr = "is_default" -> is_default(v.i, 0)
      [] attr = "is_empty" -> is_empty(v.s)

DefaultFor(attr) ==
    CASE attr = "is_true" -> [b |-> bool_true]
      [] attr = "is_false" -> [b |-> FALSE]
      [] attr = "is_one_hundred" -> [i |-> one_hundred]
      [] attr = "is_scale_unit" -> [pair |-> scale_unit]
      [] attr = "is_default" -> [i |-> 0]
      [] attr = "is_empty" -> [s |-> <<>>]

layerId == <<"l", "a", "y", "e", "r", "I", "d">>

visible == <<"v", "i", "s", "i", "b", "l", "e">>

width == <<"w", "i", "d", "t", "h">>

\* the defaults decoding gives the three fields of a glyphs3::Layer
LayerDefault == [layer_id |-> <<>>, visible |-> bool_true, width |-> Float(0)]

\* impl Serialize for glyphs3::Layer: the fields it gives to serialize_field
LayerFields(layer) ==
    Emit(~(layer.layer_id # <<>>), layerId, [t |-> "str", s |-> layer.layer_id])
    \o Emit(~(~layer.visible), visible, Bool(layer.visible))
    \o Emit(~(~FloatEq(layer.width, Float(0)) \/ layer.layer_id # <<>>), width,
            [t |-> "float", f |-> layer.width])

serialize_layer(s, layer) == Serialize(s, [t |-> "struct", e |-> LayerFields(layer)])

(***************************************************************************)
(* The untagged unions of glyphs3 (src/glyphs3.rs): Shape and Property, on  *)
(* the fields that tell their variants apart.  An untagged union is decoded *)
(* by trying its variants in the order of declaration.                      *)
(***************************************************************************)
ref == <<"r", "e", "f">>

nodes == <<"n", "o", "d", "e", "s">>

closed == <<"c", "l", "o", "s", "e", "d">>

locked == <<"l", "o", "c", "k", "e", "d">>

\* int_to_bool: an i8, true when it is 1
\* anything_to_bool: AnythingToBoolVisitor has visit_str and visit_i64, and
\* both answer true
anything_to_bool(d, key, absent) ==
    IF ~contains_key(d, key) THEN absent
    ELSE IF Get(d, key).t \in {"str", "int"} THEN Decoded(TRUE)
    ELSE ParseError

int_to_bool(d, key, absent) ==
    IF ~contains_key(d, key) THEN absent
    ELSE IF Get(d, key).t = "int" /\ Get(d, key).i \in -128..127 THEN Decoded(Get(d, key).i = 1)
    ELSE ParseError

\* Vec<Node>: an array whose elements are sequences
DecodeNodes(d, key, absent) ==
    IF ~contains_key(d, key) THEN absent
    ELSE IF Get(d, key).t = "arr" /\ \A k \in 1..Len(Get(d, key).a) : Get(d, key).a[k].t = "arr"
    THEN Decoded(Get(d, key).a)
    ELSE ParseError

DeserializeComponent(plist) ==
    IF plist.t # "dict" THEN ParseError
    ELSE LET is_locked == int_to_bool(plist, locked, Decoded(FALSE))
             component_glyph == DecodeString(plist, ref, MissingField)
         IN  IF is_locked.ok /\ component_glyph.ok
             THEN Decoded([variant |-> "Component", locked |-> is_locked.v,
                           component_glyph |-> component_glyph.v])
             ELSE ParseError

DeserializePath(plist) ==
    IF plist.t # "dict" THEN ParseError
    ELSE LET is_closed == int_to_bool(plist, closed, Decoded(FALSE))
             node_list == DecodeNodes(plist, nodes, MissingField)
         IN  IF is_closed.ok /\ node_list.ok
             THEN Decoded([variant |-> "Path", closed |-> is_closed.v, nodes |-> node_list.v])
             ELSE ParseError

\* Shape with Path declared before Component
DeserializeShape_path_first(plist) ==
    IF DeserializePath(plist).ok THEN DeserializePath(plist)
    ELSE IF DeserializeComponent(plist).ok THEN DeserializeComponent(plist)
    ELSE ParseError

\* enum Shape { Component(Component), Path(Path) }, untagged
DeserializeShape(plist) ==
    IF DeserializeComponent(plist).ok THEN DeserializeComponent(plist)
    ELSE IF DeserializePath(plist).ok THEN DeserializePath(plist)
    ELSE ParseError

propertyKey == <<"k", "e", "y">>

propertyValue == <<"v", "a", "l", "u", "e">>

propertyValues == <<"v", "a", "l", "u", "e", "s">>

language == <<"l", "a", "n", "g", "u", "a", "g", "e">>

SingularPropertyKey ==
    {<<"d", "e", "s", "i", "g", "n", "e", "r">>,
     <<"m", "a", "n", "u", "f", "a", "c", "t", "u", "r", "e", "r">>,
     <<"d", "e", "s", "i", "g", "n", "e", "r", "U", "R", "L">>,
     <<"m", "a", "n", "u", "f", "a", "c", "t", "u", "r", "e", "r", "U", "R", "L">>,
     <<"l", "i", "c", "e", "n", "s", "e", "U", "R", "L">>,
     <<"p", "o", "s", "t", "s", "c", "r", "i", "p", "t", "F", "u", "l", "l", "N", "a", "m", "e">>,
     <<"p", "o", "s", "t", "s", "c", "r", "i", "p", "t", "F", "o", "n", "t", "N", "a", "m", "e">>,
     <<"W", "W", "S", "F", "a", "m", "i", "l", "y", "N", "a", "m", "e">>,
     <<"v", "e", "r", "s", "i", "o", "n", "S", "t", "r", "i", "n", "g">>,
     <<"v", "e", "n", "d", "o", "r", "I", "D">>,
     <<"u", "n", "i", "q", "u", "e", "I", "D">>}

LocalizedPropertyKey ==
    {<<"f", "a", "m", "i", "l", "y", "N", "a", "m", "e", "s">>,
     <<"c", "o", "p", "y", "r", "i", "g", "h", "t", "s">>,
     <<"d", "e", "s", "i", "g", "n", "e", "r", "s">>,
     <<"m", "a", "n", "u", "f", "a", "c", "t", "u", "r", "e", "r", "s">>,
     <<"l", "i", "c", "e", "n", "s", "e", "s">>,
     <<"t", "r", "a", "d", "e", "m", "a", "r", "k", "s">>,
     <<"d", "e", "s", "c", "r", "i", "p", "t", "i", "o", "n", "s">>,
     <<"s", "a", "m", "p", "l", "e", "T", "e", "x", "t", "s">>,
     <<"c", "o", "m", "p", "a", "t", "i", "b", "l", "e", "F", "u", "l", "l", "N", "a", "m", "e", "s">>,
     <<"s", "t", "y", "l", "e", "N", "a", "m", "e", "s">>}

\* a unit enum: one of the names of its variants
DecodeKey(d, names) ==
    IF contains_key(d, propertyKey) /\ Get(d, propertyKey).t = "str"
       /\ Get(d, propertyKey).s \in names
    THEN Decoded(Get(d, propertyKey).s)
    ELSE ParseError

DeserializeLocalizedValue(plist) ==
    IF plist.t # "dict" THEN ParseError
    ELSE LET lang == DecodeString(plist, language, MissingField)
             text == DecodeString(plist, propertyValue, MissingField)
         IN  IF lang.ok /\ text.ok THEN Decoded([language |-> lang.v, value |-> text.v])
             ELSE ParseError

DeserializeSingularProperty(plist) ==
    IF plist.t # "dict" THEN ParseError
    ELSE LET name == DecodeKey(plist, SingularPropertyKey)
             text == DecodeString(plist, propertyValue, MissingField)
         IN  IF name.ok /\ text.ok
             THEN Decoded([variant |-> "SingularProperty", key |-> name.v, value |-> text.v])
             ELSE ParseError

DeserializeLocalizedProperty(plist) ==
    IF plist.t # "dict" THEN ParseError
    ELSE LET name == DecodeKey(plist, LocalizedPropertyKey)
             listed == contains_key(plist, propertyValues)
                       /\ Get(plist, propertyValues).t = "arr"
                       /\ \A k \in 1..Len(Get(plist, propertyValues).a) :
                            DeserializeLocalizedValue(Get(plist, propertyValues).a[k]).ok
         IN  IF name.ok /\ listed
             THEN Decoded([variant |-> "LocalizedProperty", key |-> name.v,
                           values |-> [k \in 1..Len(Get(plist, propertyValues).a) |->
                                         DeserializeLocalizedValue(Get(plist, propertyValues).a[k]).v]])
             ELSE ParseError

\* enum Property { SingularProperty, LocalizedProperty, Junk(Plist) }, untagged
DeserializeProperty(plist) ==
    IF DeserializeSingularProperty(plist).ok THEN DeserializeSingularProperty(plist)
    ELSE IF DeserializeLocalizedProperty(plist).ok THEN DeserializeLocalizedProperty(plist)
    ELSE Decoded([variant |-> "Junk", plist |-> plist])

(***************************************************************************)
(* Decoding with the path tracked (Font::from_plist through                 *)
(* serde_path_to_error::deserialize), on the part of the glyphs3 schema     *)
(* that leads from the document to a node of a path and to the factors of   *)
(* an instance.  A path is the sequence of the fields and indices passed.   *)
(* The tracker follows the decoder into fields, elements and map values;    *)
(* an untagged union buffers its value and gives each variant the buffer,   *)
(* which the tracker does not follow.                                       *)
(***************************************************************************)
shapes == <<"s", "h", "a", "p", "e", "s">>

instances == <<"i", "n", "s", "t", "a", "n", "c", "e", "s">>

instanceInterpolations == <<"i", "n", "s", "t", "a", "n", "c", "e", "I", "n", "t", "e", "r", "p", "o", "l", "a", "t", "i", "o", "n", "s">>

AtField(name) == [seg |-> "field", name |-> name, index |-> 0]

AtIndex(k) == [seg |-> "index", name |-> <<>>, index |-> k]

Scalar(ty) == [kind |-> ty]

Member(key, required, ty) == [k |-> key, required |-> required, ty |-> ty]

NodeSchema == Scalar("Node")

PathSchema == [kind |-> "struct",
               fields |-> <<Member(closed, FALSE, Scalar("int_to_bool")),
                            Member(nodes, TRUE, [kind |-> "seq", of |-> NodeSchema])>>]

ComponentSchema == [kind |-> "struct",
                    fields |-> <<Member(locked, FALSE, Scalar("int_to_bool")),
                                 Member(ref, TRUE, Scalar("String"))>>]

ShapeSchema == [kind |-> "untagged", variants |-> <<ComponentSchema, PathSchema>>]

LayerSchema == [kind |-> "struct",
                fields |-> <<Member(layerId, FALSE, Scalar("String")),
                             Member(shapes, FALSE, [kind |-> "seq", of |-> ShapeSchema]),
                             Member(width, FALSE, Scalar("f32"))>>]

GlyphSchema == [kind |-> "struct",
                fields |-> <<Member(glyphname, TRUE, Scalar("String")),
                             Member(layers, TRUE, [kind |-> "seq", of |-> LayerSchema])>>]

InstanceSchema == [kind |-> "struct",
                   fields |-> <<Member(instanceInterpolations, FALSE,
                                       [kind |-> "map", of |-> Scalar("InstanceFactors")])>>]

Glyphs3Schema == [kind |-> "struct",
                  fields |-> <<Member(formatVersion, FALSE, Scalar("i32")),
                               Member(familyName, TRUE, Scalar("String")),
                               Member(glyphs, FALSE, [kind |-> "seq", of |-> GlyphSchema]),
                               Member(instances, FALSE, [kind |-> "seq", of |-> InstanceSchema]),
                               Member(unitsPerEm, TRUE, Scalar("i32"))>>]

\* whether a wire value decodes into a scalar type
ScalarDecodes(ty, v) ==
    CASE ty = "String" -> v.t = "str"
      [] ty = "i32" -> v.t = "int"
      [] ty = "f32" -> v.t \in {"int", "float"}
      [] ty = "int_to_bool" -> v.t = "int" /\ v.i \in -128..127
      [] ty = "Node" -> v.t = "arr" /\ Len(v.a) >= 3
      [] ty = "InstanceFactors" -> deserialize_commify("factors", v).ok

Fine == [ok |-> TRUE]

ErrorAt(chain) == [ok |-> FALSE, path |-> chain]

\* the chain one level down: the tracker records the level only where it
\* follows the decoder
Below(chain, tracked, seg) == IF tracked THEN Append(chain, seg) ELSE chain

HasField(fields, key) == \E n \in 1..Len(fields) : fields[n].k = key

FieldOf(fields, key) == fields[CHOOSE n \in 1..Len(fields) : fields[n].k = key]

RECURSIVE Track(_, _, _, _), TrackEntries(_, _, _, _, _), TrackElements(_, _, _, _, _),
          TrackValues(_, _, _, _, _), TrackVariants(_, _, _)

\* T::deserialize of the wire value v at the place chain
Track(schema, v, chain, tracked) ==
    CASE schema.kind = "struct" ->
            IF v.t # "dict" THEN ErrorAt(chain)
            ELSE TrackEntries(schema.fields, v, chain, tracked, 1)
      [] schema.kind = "seq" ->
            IF v.t # "arr" THEN ErrorAt(chain)
            ELSE TrackElements(schema.of, v.a, chain, tracked, 1)
      [] schema.kind = "map" ->
            IF v.t # "dict" THEN ErrorAt(chain)
            ELSE TrackValues(schema.of, v.e, chain, tracked, 1)
      [] schema.kind = "untagged" ->
            IF TrackVariants(schema.variants, v, 1) THEN Fine ELSE ErrorAt(chain)
      [] OTHER -> IF ScalarDecodes(schema.kind, v) THEN Fine ELSE ErrorAt(chain)

\* the entries of a record in the order of the text, a key the record does
\* not declare passed over; then the fields that are required and missing
TrackEntries(fields, d, chain, tracked, n) ==
    IF n > Len(d.e)
    THEN IF \E m \in 1..Len(fields) : fields[m].required /\ ~contains_key(d, fields[m].k)
         THEN ErrorAt(chain) ELSE Fine
    ELSE LET e == d.e[n]
             r == IF HasField(fields, e.k)
                  THEN Track(FieldOf(fields, e.k).ty, e.v, Below(chain, tracked, AtField(e.k)), tracked)
                  ELSE Fine
         IN  IF r.ok THEN TrackEntries(fields, d, chain, tracked, n + 1) ELSE r

TrackElements(of, elems, chain, tracked, n) ==
    IF n > Len(elems) THEN Fine
    ELSE LET r == Track(of, elems[n], Below(chain, tracked, AtIndex(n - 1)), tracked)
         IN  IF r.ok THEN TrackElements(of, elems, chain, tracked, n + 1) ELSE r

TrackValues(of, entries, chain, tracked, n) ==
    IF n > Len(entries) THEN Fine
    ELSE LET r == Track(of, entries[n].v, Below(chain, tracked, AtField(entries[n].k)), tracked)
         IN  IF r.ok THEN TrackValues(of, entries, chain, tracked, n + 1) ELSE r

\* whether some variant decodes the buffered value
TrackVariants(variants, v, n) ==
    IF n > Len(variants) THEN FALSE
    ELSE Track(variants[n], v, <<>>, FALSE).ok \/ TrackVariants(variants, v, n + 1)

\* serde_path_to_error::deserialize of a Glyphs3
deserialize_with_path(plist) == Track(Glyphs3Schema, plist, <<>>, TRUE)

(***************************************************************************)
(* glyphs2::Instance on five of its fields (glyphslib src/glyphs2.rs): an   *)
(* Option is [some |-> FALSE] or [some |-> TRUE, v |-> value].              *)
(***************************************************************************)
exports == <<"e", "x", "p", "o", "r", "t", "s">>

isBold == <<"i", "s", "B", "o", "l", "d">>

isRegular == <<"i", "s", "R", "e", "g", "u", "l", "a", "r">>

instanceName == <<"n", "a", "m", "e">>

weightClass == <<"w", "e", "i", "g", "h", "t", "C", "l", "a", "s", "s">>

None == [some |-> FALSE]

Some(v) == [some |-> TRUE, v |-> v]

\* Option::serialize: serialize_none or serialize_some(value)
OptionStr(option) == IF option.some THEN [t |-> "str", s |-> option.v] ELSE [t |-> "none"]

\* Option::is_none
is_none(option) == ~option.some

\* derive(Serialize) of Instance: isRegular has no skip_serializing_if
SerializeInstance(instance) ==
    [t |-> "struct",
     e |-> Emit(is_true(instance.exports), exports, Bool(instance.exports))
           \o Emit(is_false(instance.is_bold), isBold, Bool(instance.is_bold))
           \o Emit(FALSE, isRegular, OptionStr(instance.link_style))
           \o Emit(FALSE, instanceName, [t |-> "str", s |-> instance.name])
           \o Emit(is_none(instance.weight_class), weightClass,
                   OptionStr(instance.weight_class))]

\* Option<String>: a key that is present holds a value, and the value is Some
DecodeOptionString(d, key, absent) ==
    IF ~contains_key(d, key) THEN absent
    ELSE IF Get(d, key).t = "str" THEN Decoded(Some(Get(d, key).s)) ELSE ParseError

\* derive(Deserialize) of Instance
DeserializeInstance(d) ==
    IF d.t # "dict" THEN ParseError
    ELSE LET exports_ == DecodeBool(d, exports, Decoded(bool_true))
             is_bold == DecodeBool(d, isBold, Decoded(FALSE))
             link_style == DecodeOptionString(d, isRegular, Decoded(None))
             name_ == DecodeString(d, instanceName, MissingField)
             weight_class == DecodeOptionString(d, weightClass, Decoded(None))
         IN  IF exports_.ok /\ is_bold.ok /\ link_style.ok /\ name_.ok /\ weight_class.ok
             THEN Decoded([exports |-> exports_.v, is_bold |-> is_bold.v,
                           link_style |-> link_style.v, name |-> name_.v,
                           weight_class |-> weight_class.v])
             ELSE ParseError

(***************************************************************************)
(* glyphs2::HintTarget (glyphslib src/glyphs2.rs): untagged, Position with  *)
(* the curly-brace codec before Label.                                      *)
(***************************************************************************)
Position(parts) == [variant |-> "Position", parts |-> parts]

Label(text) == [variant |-> "Label", s |-> text]

\* derive(Serialize) of the untagged enum: the variant's own encoding
SerializeHintTarget(s, target) ==
    IF target.variant = "Position"
    THEN serialize_commify(s, [ty |-> "point", parts |-> target.parts])
    ELSE serialize_str(s, target.s)

\* derive(Deserialize) of the untagged enum: Position is tried first, then Label
DeserializeHintTarget(plist) ==
    LET position == deserialize_commify("point", plist)
    IN  IF position.ok THEN Decoded(Position(position.v.parts))
        ELSE IF plist.t = "str" THEN Decoded(Label(plist.s))
        ELSE ParseError

\* a key the schemas do not declare
UnknownKey == <<"n", "o", "t", "e">>

\* the keys a document may hold, each with the values it may hold
DocumentKeys ==
    <<[k |-> appVersion, vals |-> {PStr(<<"3", "2", "1", "0">>)}],
      [k |-> formatVersion, vals |-> {PInt(3)}],
      [k |-> familyName, vals |-> {PStr(<<"A", "b">>)}],
      [k |-> glyphs, vals |-> {PArr(<<>>)}],
      [k |-> keepAlternatesTogether, vals |-> {PInt(0), PInt(1)}],
      [k |-> unitsPerEm, vals |-> {PInt(1000)}],
      [k |-> versionMajor, vals |-> {PInt(0), PInt(1)}],
      [k |-> versionMinor, vals |-> {PInt(0), PInt(5)}],
      [k |-> UnknownKey, vals |-> {PStr(<<"y">>)}]>>

RECURSIVE DocumentEntries(_)
DocumentEntries(n) ==
    IF n = 0 THEN {<<>>}
    ELSE LET before == DocumentEntries(n - 1)
         IN  before \cup {Append(e, Entry(DocumentKeys[n].k, v)) :
                            e \in before, v \in DocumentKeys[n].vals}

\* document texts: a dictionary over some of the keys, written out
DocumentTexts == {to_string(PDict(e)) : e \in DocumentEntries(Len(DocumentKeys))}

CropSamples == {-5, 0, 1, 2, 3, 4}

CropRects == {[top |-> t, left |-> l, bottom |-> b, right |-> r] :
                t \in CropSamples, l \in CropSamples, b \in CropSamples, r \in CropSamples}

\* U+0041, U+0066, U+0069, U+00E9, U+1F600
CodepointSamples == {65, 102, 105, 233, 128512}

CodepointLists == SeqsUpTo(CodepointSamples, MaxCodepoints)

\* a field with its attribute pair and a value it holds
OmittableFields ==
    {[attr |-> a, value |-> [b |-> v]] : a \in {"is_true", "is_false"}, v \in BOOLEAN}
    \cup {[attr |-> a, value |-> [i |-> v]] :
            a \in {"is_one_hundred", "is_default"}, v \in {0, 1, 100, 101}}
    \cup {[attr |-> "is_scale_unit", value |-> [pair |-> <<x, y>>]] :
            x \in {Float(0), Float(FloatUnit), Float(-FloatUnit)}, y \in {Float(FloatUnit), Float(50000000)}}
    \cup {[attr |-> "is_empty", value |-> [s |-> v]] : v \in {<<>>, <<"a">>}}

Layers ==
    {[layer_id |-> i, visible |-> v, width |-> w] :
        i \in {<<>>, <<"m", "0", "1">>}, v \in BOOLEAN,
        w \in {Float(0), [neg |-> TRUE, mag |-> 0], Float(150000000), Float(600000000)}}

\* the dictionaries over some of the first n of the keys given, each key
\* with one of its values
RECURSIVE EntriesFrom(_, _)
EntriesFrom(choices, n) ==
    IF n = 0 THEN {<<>>}
    ELSE LET before == EntriesFrom(choices, n - 1)
         IN  before \cup {Append(e, Entry(choices[n].k, v)) : e \in before, v \in choices[n].vals}

ShapeKeys ==
    <<[k |-> ref, vals |-> {PStr(<<"A">>)}],
      [k |-> nodes, vals |-> {PArr(<<>>), PArr(<<PArr(<<PInt(1), PInt(2), PStr(<<"l">>)>>)>>),
                              PStr(<<"x">>)}],
      [k |-> closed, vals |-> {PInt(0), PInt(1)}],
      [k |-> locked, vals |-> {PInt(1), PInt(300)}]>>

ShapeValues == {PDict(e) : e \in EntriesFrom(ShapeKeys, Len(ShapeKeys))} \cup {PStr(<<"A">>)}

PropertyKeys ==
    <<[k |-> propertyKey, vals |-> {PStr(<<"d", "e", "s", "i", "g", "n", "e", "r">>),
                                    PStr(<<"d", "e", "s", "i", "g", "n", "e", "r", "s">>),
                                    PStr(<<"b", "o", "g", "u", "s">>)}],
      [k |-> propertyValue, vals |-> {PStr(<<"x">>)}],
      [k |-> propertyValues,
       vals |-> {PArr(<<>>),
                 PArr(<<PDict(<<Entry(language, PStr(<<"d", "f", "l", "t">>)),
                                Entry(propertyValue, PStr(<<"x">>))>>)>>),
                 PArr(<<PInt(1)>>)}]>>

PropertyValues ==
    {PDict(e) : e \in EntriesFrom(PropertyKeys, Len(PropertyKeys))} \cup {PStr(<<"x">>), PInt(7)}

GoodNode == PArr(<<PInt(1), PInt(2), PStr(<<"l">>)>>)

GoodPath == PDict(<<Entry(closed, PInt(1)), Entry(nodes, PArr(<<GoodNode>>))>>)

GoodLayer == PDict(<<Entry(layerId, PStr(<<"m", "0", "1">>)), Entry(shapes, PArr(<<GoodPath>>)),
                     Entry(width, PInt(600))>>)

GoodGlyph == PDict(<<Entry(glyphname, PStr(<<"A">>)), Entry(layers, PArr(<<GoodLayer>>))>>)

GoodInstance ==
    PDict(<<Entry(instanceInterpolations,
                  PDict(<<Entry(<<"m", "0", "1">>, PStr(<<"{", "1", "}">>))>>))>>)

\* n good values, then the one given
After(n, good, last) == [k \in 1..(n + 1) |-> IF k <= n THEN good ELSE last]

Glyphs3Document(glyph_list, instance_list) ==
    PDict(<<Entry(formatVersion, PInt(3)), Entry(familyName, PStr(<<"A", "b">>)),
            Entry(glyphs, PArr(glyph_list)), Entry(instances, PArr(instance_list)),
            Entry(unitsPerEm, PInt(1000))>>)

GlyphWithLayer(j, layer) ==
    PDict(<<Entry(glyphname, PStr(<<"A">>)), Entry(layers, PArr(After(j, GoodLayer, layer)))>>)

LayerWithShape(k, shape) ==
    PDict(<<Entry(layerId, PStr(<<"m", "0", "1">>)),
            Entry(shapes, PArr(After(k, GoodPath, shape))), Entry(width, PInt(600))>>)

Indices == 0..MaxIndex

\* documents with one value that does not decode, each with the place of
\* that value
FaultyDocuments ==
    {[doc |-> Glyphs3Document(After(i, GoodGlyph,
                PDict(<<Entry(glyphname, PArr(<<>>)), Entry(layers, PArr(<<GoodLayer>>))>>)), <<>>),
      fault |-> <<AtField(glyphs), AtIndex(i), AtField(glyphname)>>,
      within |-> "record"] : i \in Indices}
    \cup {[doc |-> Glyphs3Document(After(i, GoodGlyph, GlyphWithLayer(j,
                PDict(<<Entry(layerId, PStr(<<"m", "0", "1">>)), Entry(width, PStr(<<"x">>))>>))), <<>>),
           fault |-> <<AtField(glyphs), AtIndex(i), AtField(layers), AtIndex(j), AtField(width)>>,
           within |-> "record"] : i \in Indices, j \in Indices}
    \cup {[doc |-> Glyphs3Document(After(i, GoodGlyph, GlyphWithLayer(j, LayerWithShape(k,
                PDict(<<Entry(closed, PInt(1)),
                        Entry(nodes, PArr(After(n, GoodNode, PStr(<<"x">>))))>>)))), <<>>),
           fault |-> <<AtField(glyphs), AtIndex(i), AtField(layers), AtIndex(j),
                       AtField(shapes), AtIndex(k), AtField(nodes), AtIndex(n)>>,
           within |-> "union"] : i \in Indices, j \in Indices, k \in Indices, n \in Indices}
    \cup {[doc |-> Glyphs3Document(After(i, GoodGlyph, GlyphWithLayer(j, LayerWithShape(k,
                PDict(<<Entry(ref, PArr(<<>>))>>)))), <<>>),
           fault |-> <<AtField(glyphs), AtIndex(i), AtField(layers), AtIndex(j),
                       AtField(shapes), AtIndex(k), AtField(ref)>>,
           within |-> "union"] : i \in Indices, j \in Indices, k \in Indices}
    \cup {[doc |-> Glyphs3Document(<<GoodGlyph>>, After(i, GoodInstance,
                PDict(<<Entry(instanceInterpolations,
                              PDict(<<Entry(<<"m", "0", "1">>, PStr(<<"{", "1", "}">>)),
                                      Entry(<<"m", "0", "2">>, PStr(<<"{", "a", "}">>))>>))>>))),
           fault |-> <<AtField(instances), AtIndex(i), AtField(instanceInterpolations),
                       AtField(<<"m", "0", "2">>)>>,
           within |-> "codec"] : i \in Indices}
    \cup {[doc |-> Glyphs3Document(After(i, GoodGlyph, GoodGlyph), After(i, GoodInstance, GoodInstance)),
           fault |-> <<>>, within |-> "nothing"] : i \in Indices}

\* a text and a byte offset, the offset up to two past the end
Positions ==
    {[text |-> t, pos |-> n] : t \in SeqsUpTo({"a", "\n"}, MaxTextLen), n \in 0..(MaxTextLen + 2)}

NameAlphabet == {"a", "A", ".", "*", "c", "o", "n", "C", "_"}

\* names longer than a file name may be
LongNames ==
    {[k \in 1..(MAX_FILE_NAME_LENGTH + extra) |-> IF k = spot THEN c ELSE "a"] :
        extra \in 1..2, spot \in {1, MAX_FILE_NAME_LENGTH}, c \in {"a", "A", "."}}

\* names at the limit of a file name: a reserved part or a two-byte
\* character at either end
NameHeads == {<<>>, <<"c", "o", "n", ".">>, <<NonAscii>>, <<"A">>}

NameTails == {<<>>, <<".", "a", "u", "x">>, <<NonAscii>>, <<"a", NonAscii, "a">>}

LimitNames ==
    {head \o [k \in 1..fill |-> "a"] \o tail :
        head \in NameHeads, tail \in NameTails,
        fill \in (MAX_FILE_NAME_LENGTH - 6)..(MAX_FILE_NAME_LENGTH + 1)}

GlyphNames ==
    SeqsUpTo(NameAlphabet, MaxNameLen)
    \cup {<<"A", ".", "A", "l", "t">>,
          <<".", "n", "o", "t", "d", "e", "f">>,
          <<"a", "l", "t", ".", "c", "o", "n">>,
          <<"C", "O", "N">>,
          <<"c", "o", "n", ".", "a", "l", "t">>,
          <<"A", "a", "c", "u", "t", "e", "_", "V", ".", "s", "w", "a", "s", "h">>,
          <<"F", "_", "F", "_", "I">>,
          <<"c", "o", "m", "1", ".", "x">>,
          <<"a", ":", "-", "z", ":">>}
    \cup LongNames

SavedGlyphNames == {<<"A">>, <<".", "n">>, <<"c", "o", "n">>}

SavedFonts ==
    {[format |-> f, app_version |-> <<>>, format_version |-> IF f = "Glyphs3" THEN 3 ELSE 0,
      display_strings |-> ds, family_name |-> <<"F">>,
      glyphs |-> [k \in 1..Len(names) |-> [name |-> names[k]]],
      keep_alternates_together |-> FALSE, units_per_em |-> 1000,
      version |-> [major |-> 1, minor |-> 0]] :
        f \in {"Glyphs2", "Glyphs3"}, ds \in {<<>>, <<<<"a">>>>},
        names \in SeqsUpTo(SavedGlyphNames, MaxGlyphs)}

\* fonts of both formats; .formatVersion also as a string of the font
WrittenFonts ==
    {[format |-> f, app_version |-> av, format_version |-> fv,
      display_strings |-> ds, family_name |-> fam,
      glyphs |-> [k \in 1..Len(names) |-> [name |-> names[k]]],
      keep_alternates_together |-> keep, units_per_em |-> 1000,
      version |-> [major |-> major, minor |-> 0]] :
        f \in {"Glyphs2", "Glyphs3"}, av \in {<<>>, <<"3">>}, fv \in {0, 2, 3},
        ds \in {<<>>, <<formatVersion>>}, fam \in {<<"F">>, formatVersion},
        names \in {<<>>, <<<<"A">>>>}, keep \in BOOLEAN, major \in {0, 1}}
    \ {font \in [format : {"Glyphs2"}, app_version : {<<>>, <<"3">>}, format_version : {2, 3},
                  display_strings : {<<>>, <<formatVersion>>},
                  family_name : {<<"F">>, formatVersion},
                  glyphs : {<<>>, <<[name |-> <<"A">>]>>},
                  keep_alternates_together : BOOLEAN, units_per_em : {1000},
                  version : {[major |-> 0, minor |-> 0], [major |-> 1, minor |-> 0]}] : TRUE}

PackagePath == <<<<"F", ".">> \o glyphspackage>>

FilePath == <<<<"F", ".", "g", "l", "y", "p", "h", "s">>>>

\* glyph names of a package, among them names that differ in a character
\* the file name replaces
PackageGlyphNames == {<<"A">>, <<".", "n">>, <<"_", "n">>, <<"a", "*">>, <<"a", "_">>,
                      <<"c", "o", "n">>}

PairwiseDistinct(list) == \A m, n \in 1..Len(list) : m # n => list[m] # list[n]

\* Glyphs3 fonts whose glyph names are pairwise distinct
PackageFonts ==
    {[format |-> "Glyphs3", app_version |-> av, format_version |-> 3,
      display_strings |-> ds, family_name |-> <<"F">>,
      glyphs |-> [k \in 1..Len(names) |-> [name |-> names[k]]],
      keep_alternates_together |-> FALSE, units_per_em |-> 1000,
      version |-> [major |-> 1, minor |-> 0]] :
        av \in {<<>>, <<"3">>}, ds \in {<<>>, <<<<"a">>>>},
        names \in {list \in SeqsUpTo(PackageGlyphNames, MaxGlyphs) : PairwiseDistinct(list)}}

\* the target absent, a file, a package with a glyph file of an earlier save
Disks ==
    {EmptyDisk,
     [dirs |-> {}, files |-> {[path |-> PackagePath, contents |-> <<"x">>]}],
     [dirs |-> {PackagePath, join(PackagePath, glyphs)},
      files |-> {[path |-> join(join(PackagePath, glyphs), <<"A", "_">> \o DotGlyph),
                  contents |-> <<"x">>],
                 [path |-> join(PackagePath, UIStatePlist), contents |-> <<"x">>]}]}

Saves ==
    {[font |-> f, path |-> p, disk |-> d] :
        f \in SavedFonts, p \in {PackagePath, FilePath}, d \in Disks}

\* the components a transform string is made of, and what the good ones hold
Components == {<<"1">>, <<"-", "2", ".", "5">>, <<" ", "3">>, <<"x">>, <<>>, <<"1", " ", "2">>}

ComponentValue(c) ==
    CASE c = <<"1">> -> Float(100000000)
      [] c = <<"-", "2", ".", "5">> -> Float(-250000000)
      [] c = <<" ", "3">> -> Float(300000000)

\* strings of 1 to MaxParts components, all 1 but one of them, with and
\* without braces, and wire values that are no string
TransformWires ==
    {[wire |-> PStr(open \o JoinText([k \in 1..n |-> IF k = spot THEN c ELSE <<"1">>], sep)
                         \o close),
      parts |-> [k \in 1..n |-> IF k = spot THEN c ELSE <<"1">>]] :
        n \in 1..MaxParts, spot \in 1..MaxParts, c \in Components,
        sep \in {<<",">>, <<",", " ">>},
        open \in {<<>>, <<"{">>}, close \in {<<>>, <<"}">>}}
    \cup {[wire |-> w, parts |-> <<>>] :
            w \in {PInt(1), PInt(6), PFloat(150000000), PArr(<<PInt(1)>>),
                   PArr(<<PInt(1), PInt(0), PInt(0), PInt(1), PInt(0), PInt(0)>>),
                   PDict(<<>>), PData(<<>>)}}

\* bare tokens of decimal digits, as a glyphs2 file holds them for unicode
DigitTokens == SeqsUpTo({"0", "1", "4", "9"}, MaxTokenLen) \ {<<>>}

\* the values of Error: every variant, with payloads and positions
LineColumns == {from_pos(<<"a", "\n", "a">>, n) : n \in 0..3}

TokenNames == {"Data", "Integer"}

EscapeSeqs == {<<"U", "z">>, <<"U", "1", "g">>}

Errors ==
    {[kind |-> k] : k \in {"BadDataInternal", "UnknownEscapeInternal"}}
    \cup {[kind |-> "InvalidUnicodeEscapeInternal", seq |-> q] : q \in EscapeSeqs}
    \cup {[kind |-> "NotAStringInternal", token_name |-> n] : n \in TokenNames}
    \cup {[kind |-> k, lc |-> lc] :
            k \in {"UnclosedString", "UnclosedData", "BadData", "UnknownEscape",
                   "ExpectedEquals", "ExpectedComma", "ExpectedSemicolon",
                   "ExpectedOpenBrace", "ExpectedCloseBrace", "ExpectedOpenParen",
                   "ExpectedCloseParen", "ExpectedNumber", "ExpectedString"},
            lc \in LineColumns}
    \cup {[kind |-> k, ch |-> "x", lc |-> lc] :
            k \in {"UnexpectedChar", "ExpectedChar"}, lc \in LineColumns}
    \cup {[kind |-> "InvalidUnicodeEscape", seq |-> q, lc |-> lc] :
            q \in EscapeSeqs, lc \in LineColumns}
    \cup {[kind |-> "NotAString", token_name |-> n, lc |-> lc] :
            n \in TokenNames, lc \in LineColumns}
    \cup {[kind |-> "UnexpectedDataType", expected |-> "String", found |-> n] : n \in TokenNames}
    \cup {[kind |-> "UnexpectedToken", name |-> n, lc |-> lc] : n \in TokenNames, lc \in LineColumns}
    \cup {[kind |-> k, msg |-> <<"m">>] : k \in {"Parse", "Serialize"}}

\* an error, where it is positioned, and where a second call positions it
ErrorsAt ==
    {[err |-> e, text |-> p.text, pos |-> p.pos, again |-> q] :
        e \in Errors,
        p \in {x \in Positions : Len(x.text) <= MaxAtLen /\ x.pos <= MaxAtLen + 1},
        q \in {[text |-> <<"\n", "\n", "a">>, pos |-> 3]}}

\* the entries of a package: its parts present or not, the glyph files of
\* some names, and the paths written in one style
PathStyles == {<<>>, <<".", "/">>, <<"/">>, <<".", "\\">>, <<".", "/", ".", "/">>}

InfoTexts ==
    {to_string(PDict(<<Entry(formatVersion, PInt(3)), Entry(familyName, PStr(<<"F">>)),
                       Entry(unitsPerEm, PInt(1000))>> \o more)) :
        more \in {<<>>, <<Entry(DisplayStrings, Strs(<<<<"o">>>>)),
                         Entry(glyphs, PArr(<<PInt(1)>>))>>}}

UiTexts ==
    {to_string(PDict(<<Entry(displayStrings, Strs(<<<<"a">>, <<"b">>>>))>>)),
     to_string(PDict(<<>>))}

OrderLists ==
    {Strs(names).a : names \in SeqsUpTo(SavedGlyphNames, MaxGlyphs)}
    \cup {<<PInt(1), PStr(<<"A">>)>>}

StyledPath(style, path) ==
    style \o (IF style # <<>> /\ style[Len(style)] = "\\" THEN ReplaceChar(path, "/", "\\")
              ELSE path)

PackageEntries ==
    {[style |-> style, order |-> order, files |-> files, parts |-> parts,
      entries |->
         {[path |-> StyledPath(style, p.path), contents |-> p.contents] :
            p \in {[path |-> FontinfoPlist, contents |-> x] : x \in parts.info}
                  \cup {[path |-> UIStatePlist, contents |-> x] : x \in parts.ui}
                  \cup {[path |-> OrderPlist, contents |-> to_string(PArr(order))] :
                          x \in {1} \cap parts.order}
                  \cup {[path |-> glyph_path(n),
                         contents |-> to_string(SerializeGlyph([name |-> n]))] : n \in files}}] :
        style \in PathStyles, order \in OrderLists, files \in SUBSET SavedGlyphNames,
        parts \in {[info |-> i, ui |-> u, order |-> o] :
                     i \in {{}} \cup {{x} : x \in InfoTexts},
                     u \in {{}} \cup {{x} : x \in UiTexts},
                     o \in {{}, {1}}}}

OptionalNames == {None, Some(<<"a">>), Some(<<"n", "u", "l", "l">>), Some(<<>>),
                  Some(<<"4", "0", "0">>)}

Instances2 ==
    {[exports |-> e, is_bold |-> b, link_style |-> l, name |-> n, weight_class |-> w] :
        e \in BOOLEAN, b \in BOOLEAN, l \in OptionalNames,
        n \in {<<"R">>, <<"B", "o", "l", "d", " ", "1">>}, w \in OptionalNames}

\* what a label holds between its commas
LabelPieces == {<<"1">>, <<"2">>, <<"u", "p">>, <<>>, <<" ", "1">>, <<"1", ".", "5">>, <<"{", "2">>,
                <<"2", "}">>}

HintTargets ==
    {Position(<<x, y>>) : x \in F32Samples, y \in F32Samples}
    \cup {Label(JoinText(pieces, <<",">>)) :
            pieces \in SeqsUpTo(LabelPieces, MaxLabelLen) \ {<<>>}}

\* a bool field with the decoder it declares and the value on the wire
WireBooleans ==
    {[decoder |-> f, wire |-> w] :
        f \in {"int_to_bool", "anything_to_bool", "bool"},
        w \in {PInt(0), PInt(1), PInt(2), PInt(-1), PStr(<<"a">>), PFloat(150000000),
               PArr(<<>>)}}

(***************************************************************************)
(* The state machine: Init draws an operation and its input, the action     *)
(* of that operation runs it to completion.                                 *)
(***************************************************************************)
Ready(o, inputs) ==
    /\ pc = "ready" /\ op = o /\ arg \in inputs
    /\ ser = NewSerializer /\ out = Nothing /\ res = Nothing
    /\ disk = EmptyDisk

\* a save starts on the disk it is given
ReadySave ==
    /\ pc = "ready" /\ op = "save" /\ arg \in Saves
    /\ ser = NewSerializer /\ out = Nothing /\ res = Nothing
    /\ disk = arg.disk

Init ==
    \/ Ready("serialize_str", Strings)
    \/ Ready("serialize_f64", {Float(u) : u \in FloatSamples})
    \/ Ready("serialize_bytes", DataInputs)
    \/ Ready("to_string", PlistValues \cup Tuples \cup Structs)
    \/ Ready("parse", PlistValues)
    \/ Ready("commify", CurlyValues)
    \/ Ready("load_str", DocumentTexts)
    \/ Ready("crop_rect", CropRects)
    \/ Ready("comma_hexstring", CodepointLists)
    \/ Ready("serialize_as_tuple", CodepointLists)
    \/ Ready("skip_serializing_if", OmittableFields)
    \/ Ready("deserialize_shape", ShapeValues)
    \/ Ready("from_plist", FaultyDocuments)
    \/ Ready("from_pos", Positions)
    \/ Ready("user_name_to_file_name", GlyphNames)
    \/ Ready("file_name_length", LimitNames)
    \/ Ready("font_round_trip", WrittenFonts)
    \/ Ready("package_round_trip", PackageFonts)
    \/ ReadySave
    \/ Ready("wire_bool", WireBooleans)
    \/ Ready("hint_target", HintTargets)
    \/ Ready("instance", Instances2)
    \/ Ready("load_package_entries", PackageEntries)
    \/ Ready("at", ErrorsAt)
    \/ Ready("unicode_token", DigitTokens)
    \/ Ready("deserialize_transform", TransformWires)
    \/ Ready("serialize_tuple_struct", TupleStructs)
    \/ Ready("deserialize_property", PropertyValues)
    \/ Ready("serialize_layer", Layers)

Run(o, after) ==
    /\ pc = "ready" /\ op = o
    /\ ser' = after
    /\ out' = Concat(after.output)
    /\ pc' = "done"
    /\ UNCHANGED <<op, arg, disk>>

\* escape_string through Serializer::serialize_str
SerializeStr == Run("serialize_str", serialize_str(ser, arg)) /\ UNCHANGED res

SerializeF64 == Run("serialize_f64", serialize_f64(ser, arg)) /\ UNCHANGED res

SerializeBytes == Run("serialize_bytes", serialize_bytes(ser, arg)) /\ UNCHANGED res

\* to_string(&value)
ToStringOp == Run("to_string", Serialize(ser, arg)) /\ UNCHANGED res

\* to_string(&value) of a value that holds a tuple struct
SerializeTupleStruct == Run("serialize_tuple_struct", Serialize(ser, arg)) /\ UNCHANGED res

\* glyphs2::Transform::deserialize of a wire value
DeserializeTransform ==
    /\ pc = "ready" /\ op = "deserialize_transform"
    /\ res' = deserialize_transform(arg.wire)
    /\ pc' = "done"
    /\ UNCHANGED <<op, arg, ser, out, disk>>

\* deserialize_comma_hexstring of the wire value of `unicode = <token>;`, and
\* of the same characters as a string
UnicodeToken ==
    /\ pc = "ready" /\ op = "unicode_token"
    /\ res' = LET plist == parse(arg)
              IN  [wire |-> plist,
                   decoded |-> IF plist.ok THEN deserialize_comma_hexstring(plist.v)
                               ELSE ParseError,
                   as_string |-> deserialize_comma_hexstring(PStr(arg))]
    /\ pc' = "done"
    /\ UNCHANGED <<op, arg, ser, out, disk>>

\* err.at(s, pos), and .at(s2, pos2) of the result
At ==
    /\ pc = "ready" /\ op = "at"
    /\ res' = LET once == at(arg.err, arg.text, arg.pos)
              IN  [once |-> once,
                   same |-> at(once, arg.text, arg.pos),
                   elsewhere |-> at(once, arg.again.text, arg.again.pos)]
    /\ pc' = "done"
    /\ UNCHANGED <<op, arg, ser, out, disk>>

\* Font::load_package_entries(&entries)
LoadPackageEntries ==
    /\ pc = "ready" /\ op = "load_package_entries"
    /\ res' = load_package_entries(arg.entries)
    /\ pc' = "done"
    /\ UNCHANGED <<op, arg, ser, out, disk>>

\* to_string(&instance), then the Instance decoded from the text
InstanceRoundTrip ==
    /\ Run("instance", Serialize(ser, SerializeInstance(arg)))
    /\ res' = LET plist == parse(out')
              IN  IF plist.ok THEN DeserializeInstance(plist.v) ELSE ParseError

\* to_string(&target), then the HintTarget decoded from the text
HintTargetRoundTrip ==
    /\ Run("hint_target", SerializeHintTarget(ser, arg))
    /\ res' = LET plist == parse(out')
              IN  IF plist.ok THEN DeserializeHintTarget(plist.v) ELSE ParseError

\* a bool field decoded from `locked = <wire>;`, and what was decoded encoded
WireBool ==
    /\ pc = "ready" /\ op = "wire_bool"
    /\ LET d == PDict(<<Entry(locked, arg.wire)>>)
           decoded == CASE arg.decoder = "int_to_bool" -> int_to_bool(d, locked, Decoded(FALSE))
                        [] arg.decoder = "anything_to_bool" ->
                              anything_to_bool(d, locked, Decoded(FALSE))
                        [] OTHER -> DecodeBool(d, locked, Decoded(FALSE))
           after == IF decoded.ok THEN serialize_bool(ser, decoded.v) ELSE ser
       IN  /\ res' = decoded
           /\ ser' = after
           /\ out' = Concat(after.output)
    /\ pc' = "done"
    /\ UNCHANGED <<op, arg, disk>>

\* Plist::parse(&to_string(&plist))
ParseBack == Run("parse", Serialize(ser, arg)) /\ res' = parse(out')

\* serialize_commify, then deserialize_commify of the text read back
Commify ==
    /\ Run("commify", serialize_commify(ser, arg))
    /\ res' = LET wire == parse(out')
              IN  IF wire.ok THEN deserialize_commify(arg.ty, wire.v) ELSE ParseError

\* Font::load_str(t), then Font::to_string, then Plist::parse of both texts
LoadStr ==
    /\ pc = "ready" /\ op = "load_str"
    /\ LET font == load_str(arg)
       IN  IF font.ok
           THEN LET after == font_to_string(ser, font.v)
                IN  /\ ser' = after
                    /\ out' = Concat(after.output)
                    /\ res' = [ok |-> TRUE, font |-> font.v,
                               before |-> parse(arg).v, after |-> parse(out')]
           ELSE /\ res' = ParseError
                /\ UNCHANGED <<ser, out>>
    /\ pc' = "done"
    /\ UNCHANGED <<op, arg, disk>>

\* CropRect::serialize, then CropRect::deserialize of the text read back,
\* and the visitor applied to the formatted string itself
CropRectRoundTrip ==
    /\ Run("crop_rect", serialize_crop_rect(ser, arg))
    /\ res' = [wire |-> LET plist == parse(out')
                        IN  IF plist.ok THEN deserialize_crop_rect(plist.v) ELSE ParseError,
               text |-> crop_rect_visit_str(CropRectText(arg))]

\* serialize_comma_hexstring, then deserialize_comma_hexstring of the text
\* read back
CommaHexString ==
    /\ Run("comma_hexstring", serialize_comma_hexstring(ser, arg))
    /\ res' = LET plist == parse(out')
              IN  [wire |-> plist,
                   decoded |-> IF plist.ok THEN deserialize_comma_hexstring(plist.v)
                               ELSE ParseError]

\* encoding a field: its skip_serializing_if decides whether it is written;
\* decoding an absent field: its default
SkipSerializingIf ==
    /\ pc = "ready" /\ op = "skip_serializing_if"
    /\ res' = [omitted |-> SkipIf(arg.attr, arg.value), absent |-> DefaultFor(arg.attr)]
    /\ pc' = "done"
    /\ UNCHANGED <<op, arg, ser, out, disk>>

\* glyphs3::Layer::serialize, and the text read back
SerializeLayer ==
    /\ Run("serialize_layer", serialize_layer(ser, arg))
    /\ res' = parse(out')

\* Glyph::unicode of glyphs3: SerializeAsTuple, and OneOrMany of the text
\* read back
UnicodeRoundTrip ==
    /\ Run("serialize_as_tuple", serialize_as_tuple(ser, arg))
    /\ res' = LET plist == parse(out')
              IN  IF plist.ok THEN one_or_many(plist.v) ELSE ParseError

\* Shape::deserialize of a wire value
DecodeShape ==
    /\ pc = "ready" /\ op = "deserialize_shape"
    /\ res' = DeserializeShape(arg)
    /\ pc' = "done"
    /\ UNCHANGED <<op, arg, ser, out, disk>>

\* Property::deserialize of a wire value
DecodeProperty ==
    /\ pc = "ready" /\ op = "deserialize_property"
    /\ res' = DeserializeProperty(arg)
    /\ pc' = "done"
    /\ UNCHANGED <<op, arg, ser, out, disk>>

\* Font::from_plist of a document: the error and the path it carries
FromPlist ==
    /\ pc = "ready" /\ op = "from_plist"
    /\ res' = deserialize_with_path(arg.doc)
    /\ pc' = "done"
    /\ UNCHANGED <<op, arg, ser, out, disk>>

\* LineColumn::from_pos(s, pos)
FromPos ==
    /\ pc = "ready" /\ op = "from_pos"
    /\ res' = from_pos(arg.text, arg.pos)
    /\ pc' = "done"
    /\ UNCHANGED <<op, arg, ser, out, disk>>

\* user_name_to_file_name(name)
UserNameToFileName ==
    /\ pc = "ready" /\ op = "user_name_to_file_name"
    /\ res' = user_name_to_file_name(arg)
    /\ pc' = "done"
    /\ UNCHANGED <<op, arg, ser, out, disk>>

\* user_name_to_file_name on a name at the limit
FileNameLength ==
    /\ pc = "ready" /\ op = "file_name_length"
    /\ res' = user_name_to_file_name(arg)
    /\ pc' = "done"
    /\ UNCHANGED <<op, arg, ser, out, disk>>

\* Font::load_str(font.to_string())
FontRoundTrip ==
    /\ pc = "ready" /\ op = "font_round_trip"
    /\ LET after == font_to_string(ser, arg)
       IN  /\ ser' = after
           /\ out' = Concat(after.output)
           /\ res' = [document |-> parse(out'), font |-> load_str(out')]
    /\ pc' = "done"
    /\ UNCHANGED <<op, arg, disk>>

\* save_package into the empty directory, then load_package of it
PackageRoundTrip ==
    /\ pc = "ready" /\ op = "package_round_trip"
    /\ With(save_package(disk, PackagePath, arg), LAMBDA saved :
            /\ disk' = saved.disk
            /\ res' = [saved |-> saved.ok,
                       loaded |-> IF saved.ok THEN load_package(saved.disk, PackagePath)
                                  ELSE NoDocument])
    /\ pc' = "done"
    /\ UNCHANGED <<op, arg, ser, out>>

\* font.save(path)
Save ==
    /\ pc = "ready" /\ op = "save"
    /\ With(save(disk, arg.path, arg.font), LAMBDA saved :
            /\ disk' = saved.disk
            /\ res' = [ok |-> saved.ok])
    /\ pc' = "done"
    /\ UNCHANGED <<op, arg, ser, out>>

Next ==
    \/ SerializeStr
    \/ SerializeF64
    \/ SerializeBytes
    \/ ToStringOp
    \/ ParseBack
    \/ Commify
    \/ LoadStr
    \/ CropRectRoundTrip
    \/ CommaHexString
    \/ UnicodeRoundTrip
    \/ SkipSerializingIf
    \/ SerializeLayer
    \/ DecodeShape
    \/ DecodeProperty
    \/ FromPlist
    \/ FromPos
    \/ UserNameToFileName
    \/ FileNameLength
    \/ FontRoundTrip
    \/ PackageRoundTrip
    \/ Save
    \/ WireBool
    \/ HintTargetRoundTrip
    \/ InstanceRoundTrip
    \/ LoadPackageEntries
    \/ At
    \/ UnicodeToken
    \/ DeserializeTransform
    \/ SerializeTupleStruct

Spec == Init /\ [][Next]_vars

(***************************************************************************)
(* Properties.                                                              *)
(***************************************************************************)
Done(o) == pc = "done" /\ op = o

Quoted(text) == Len(text) >= 2 /\ text[1] = "\"" /\ text[Len(text)] = "\""

Rendered(values) == [k \in 1..Len(values) |-> to_string(values[k])]

\* what a float reads back as: rounded to FLOAT_PRECISION digits, and an
\* Integer when nothing is left after the decimal point
RECURSIVE Canonical(_)
Canonical(v) ==
    CASE v.t = "float" ->
            LET r == RoundToPrecision(v.f, FLOAT_PRECISION)
            IN  IF r.mag % FloatUnit = 0
                THEN PInt(IF r.neg THEN 0 - (r.mag \div FloatUnit) ELSE r.mag \div FloatUnit)
                ELSE [t |-> "float", f |-> r]
      [] v.t = "arr" -> PArr([k \in 1..Len(v.a) |-> Canonical(v.a[k])])
      [] v.t = "dict" -> PDict([k \in 1..Len(v.e) |-> Entry(v.e[k].k, Canonical(v.e[k].v))])
      [] OTHER -> v

RECURSIVE FloatsPrintExactly(_)
FloatsPrintExactly(v) ==
    CASE v.t = "float" -> /\ v.f.mag % (FloatUnit \div Pow10(FLOAT_PRECISION)) = 0
                          /\ v.f.mag % FloatUnit # 0
      [] v.t = "arr" -> \A k \in 1..Len(v.a) : FloatsPrintExactly(v.a[k])
      [] v.t = "dict" -> \A k \in 1..Len(v.e) : FloatsPrintExactly(v.e[k].v)
      [] OTHER -> TRUE

C3_QuotingBoundary ==
    Done("serialize_str") =>
        LET bare == All(arg, is_alnum_strict) /\ \E k \in 1..Len(arg) : arg[k] \notin Digits
        IN  /\ (out = arg) <=> bare
            /\ ~bare => Quoted(out)
            /\ arg \in {<<>>, <<"1", "2", "3">>, <<"a", " ", "a">>, PathString} => Quoted(out)
            /\ arg = <<"a", "b", "c", "1", "2", "3">> => out = arg

C3_Witness == Done("serialize_str") /\ arg = <<"1", "2", "3">> /\ Quoted(out)

RECURSIVE BackslashEscaped(_)
BackslashEscaped(s) ==
    IF s = <<>> THEN <<>>
    ELSE (IF Head(s) \in {"\"", "\\"} THEN <<"\\", Head(s)>> ELSE <<Head(s)>>)
         \o BackslashEscaped(Tail(s))

\* C4: the tokens pushed for a quoted string concatenate to a double quote,
\* the string with one backslash before each double quote and backslash and
\* everything else copied in order, and a double quote.
C4_EscapedText ==
    (Done("serialize_str") /\ out # arg) =>
        Concat(ser.output) = <<"\"">> \o BackslashEscaped(arg) \o <<"\"">>

C4_Witness ==
    /\ Done("serialize_str") /\ arg = <<"\"", "\n", "\\">>
    /\ out = <<"\"", "\\", "\"", "\n", "\\", "\\", "\"">>

FractionDigits(text) ==
    LET dot == IndexOf(text, {"."}) IN IF dot = 0 THEN 0 ELSE Len(text) - dot

OneAndABit == Float(100004999)

Opens(text) == text # <<>> /\ text[1] \in {"{", "("}

\* C6: a closing sequence is laid out from its elements: inline with bare
\* commas when none opens a dictionary or array and all are numeric, inline
\* with comma-space when none opens one but some is not numeric, in block
\* form when one does; the empty sequence is ().
C6_SequenceLayout ==
    (Done("to_string") /\ arg.t = "arr") =>
        LET texts == Rendered(arg.a)
            flat == \A k \in 1..Len(texts) : ~Opens(texts[k])
            numeric == \A k \in 1..Len(texts) : IsF64(texts[k])
        IN  /\ (flat /\ numeric) => out = <<"(">> \o JoinText(texts, <<",">>) \o <<")">>
            /\ (flat /\ ~numeric) => out = <<"(">> \o JoinText(texts, <<",", " ">>) \o <<")">>
            /\ ~flat => out = <<"(", "\n">> \o JoinText(texts, <<",", "\n">>) \o <<"\n", ")">>
            /\ arg.a = <<>> => out = <<"(", ")">>

C6_Witness ==
    /\ Done("to_string")
    /\ arg = PArr(<<PArr(<<PDict(<<Entry(<<"b">>, PFloat(100000000))>>)>>), PInt(3)>>)
    /\ out = <<"(", "\n", "(", "\n", "{", "\n", "b", " ", "=", " ", "1", ";", "\n", "}",
               "\n", ")", ",", "\n", "3", "\n", ")">>

\* C7 as stated: a tuple renders inline with comma-space between its elements
C7_TupleCommaSpace ==
    (Done("to_string") /\ arg.t = "tuple") =>
        out = <<"(">> \o JoinText(Rendered(arg.a), <<",", " ">>) \o <<")">>

\* C7 as amended: a tuple always renders inline as (, its elements separated
\* by a bare comma, then ), never in block form, with exactly one separator
\* between two consecutive elements.
C7_TupleBareComma ==
    (Done("to_string") /\ arg.t = "tuple") =>
        out = <<"(">> \o JoinText(Rendered(arg.a), <<",">>) \o <<")">>

C7_Witness ==
    /\ Done("to_string")
    /\ arg = Tuple(<<PFloat(150000000), PDict(<<Entry(<<"a">>, PInt(1))>>), PStr(<<"l">>)>>)
    /\ out = <<"(", "1", ".", "5", ",", "{", "\n", "a", " ", "=", " ", "1", ";", "\n", "}",
               ",", "l", ")">>

RECURSIVE EntryLines(_)
EntryLines(entries) ==
    IF entries = <<>> THEN <<>>
    ELSE <<"\n">> \o to_string(PStr(Head(entries).k)) \o <<" ", "=", " ">>
         \o to_string(Head(entries).v) \o <<";">> \o EntryLines(Tail(entries))

\* C8: a dictionary or struct renders as {, each entry on its own line as
\* key = value; in the order supplied, a newline and }; a dictionary that is
\* the value of an entry is so followed by ; and one that is the top-level
\* value or an element of an array is not.
C8_DictionaryLayout ==
    /\ (Done("to_string") /\ arg.t \in {"dict", "struct"}) =>
          /\ out = <<"{">> \o EntryLines(arg.e) \o <<"\n", "}">>
          /\ out[Len(out)] = "}"
    /\ (Done("to_string") /\ arg.t = "arr") =>
          \A k \in 1..Len(arg.a) :
              arg.a[k].t = "dict" =>
                  \E n \in 1..Len(out) :
                      /\ SubSeq(out, n, n + Len(to_string(arg.a[k])) - 1) = to_string(arg.a[k])
                      /\ out[n + Len(to_string(arg.a[k]))] \in {",", "\n"}

C8_Witness ==
    /\ Done("to_string")
    /\ arg = PDict(<<Entry(<<"k", " ">>, PDict(<<Entry(<<"a">>, PInt(1))>>)),
                     Entry(<<"a">>, PStr(<<"x">>))>>)
    /\ out = <<"{", "\n", "\"", "k", " ", "\"", " ", "=", " ", "{", "\n", "a", " ", "=", " ",
               "1", ";", "\n", "}", ";", "\n", "a", " ", "=", " ", "x", ";", "\n", "}">>

LowerHex == <<"0", "1", "2", "3", "4", "5", "6", "7", "8", "9", "a", "b", "c", "d", "e", "f">>

LowerHexValue(c) == (CHOOSE n \in 1..16 : LowerHex[n] = c) - 1

\* C9: bytes render as <, two lowercase hexadecimal digits per byte, high
\* nibble first, and >, without separators; no byte reaches the unreachable
\* branch of to_hex_digit.
C9_HexData ==
    Done("serialize_bytes") =>
        /\ Len(out) = 2 * Len(arg) + 2
        /\ out[1] = "<" /\ out[Len(out)] = ">"
        /\ \A k \in 1..Len(arg) :
              /\ \A c \in {out[2 * k], out[2 * k + 1]} : \E n \in 1..16 : LowerHex[n] = c
              /\ 16 * LowerHexValue(out[2 * k]) + LowerHexValue(out[2 * k + 1]) = arg[k]
        /\ \A b \in 0..255 : Unreachable \notin {hex_digits_for_byte(b)[1], hex_digits_for_byte(b)[2]}

C9_Witness == Done("serialize_bytes") /\ arg = <<171, 15>> /\ out = <<"<", "a", "b", "0", "f", ">">>

\* C10: the curly-brace codec is invertible: decoding the string that encodes
\* x returns x, for points, alignment zones, transforms and instance-factor
\* lists of any length from 0 upward.
C10_CurlyCodecInverts == Done("commify") => res.ok /\ res.v = arg

\* the same for the values that have at least one component
C10_NonEmptyInverts == (Done("commify") /\ arg.parts # <<>>) => res.ok /\ res.v = arg

Entries(d) == {d.e[n] : n \in 1..Len(d.e)}

KeysOf(d) == {d.e[n].k : n \in 1..Len(d.e)}

\* structural equality of two dictionaries whose values are leaves
SameTree(a, b) == a.t = "dict" /\ b.t = "dict" /\ Entries(a) = Entries(b)

DeclaredKeys(d) ==
    {appVersion, familyName, glyphs, keepAlternatesTogether, unitsPerEm,
     versionMajor, versionMinor}
    \cup (IF contains_key(d, formatVersion) THEN {formatVersion} ELSE {})

AsWritten(d) ==
    /\ KeysOf(d) \subseteq DeclaredKeys(d)
    /\ contains_key(d, appVersion) => Get(d, appVersion) # PStr(<<>>)
    /\ contains_key(d, keepAlternatesTogether) => Get(d, keepAlternatesTogether) # PInt(0)
    /\ contains_key(d, glyphs) <=> ~contains_key(d, formatVersion)
    /\ contains_key(d, versionMajor) <=> contains_key(d, versionMinor)
    /\ contains_key(d, versionMajor) =>
         ~(Get(d, versionMajor) = PInt(0) /\ Get(d, versionMinor) = PInt(0))

C11_CropRectRoundTrips ==
    Done("crop_rect") =>
        /\ out = <<"\"">> \o CropRectText(arg) \o <<"\"">>
        /\ res.wire.ok /\ res.wire.v = arg
        /\ res.text.ok /\ res.text.v = arg

\* the written form is a sequence holding the string
C11_WrittenAsSequence ==
    Done("crop_rect") => out = <<"(", "\"">> \o CropRectText(arg) \o <<"\"", ")">>

\* the decoder rejects the formatted string: " right" is no i32
C11_DecoderRejects == Done("crop_rect") => ~res.text.ok /\ ~res.wire.ok

HexGroups(value) == [k \in 1..Len(value) |-> FormatHex04(value[k])]

\* C12: a list of code points is written as one string of upper-case
\* hexadecimal groups of at least 4 digits joined by commas (a single code
\* point as its group alone), and deserialize_comma_hexstring of that output
\* returns the same list.
C12_CommaHexRoundTrips ==
    (Done("comma_hexstring") /\ Len(arg) >= 1) =>
        /\ res.wire.ok /\ res.wire.v = PStr(JoinText(HexGroups(arg), <<",">>))
        /\ res.decoded.ok /\ res.decoded.v = arg

\* a single code point is written as its group and reads back
C12_SingleRoundTrips ==
    (Done("comma_hexstring") /\ Len(arg) = 1) =>
        /\ res.wire.ok /\ res.wire.v = PStr(FormatHex04(arg[1]))
        /\ res.decoded.ok /\ res.decoded.v = arg

\* two or more code points are written as an array of strings, commas among
\* them, which the decoder does not take
C12_ManyWrittenAsArray ==
    (Done("comma_hexstring") /\ Len(arg) >= 2) =>
        /\ res.wire.ok /\ res.wire.v = PArr([k \in 1..Len(HexElements(arg)) |-> PStr(HexElements(arg)[k])])
        /\ ~res.decoded.ok

SameValue(attr, a, b) ==
    IF attr = "is_scale_unit"
    THEN FloatEq(a.pair[1], b.pair[1]) /\ FloatEq(a.pair[2], b.pair[2])
    ELSE a = b

PairsAgree ==
    Done("skip_serializing_if") =>
        (res.omitted <=> SameValue(arg.attr, arg.value, res.absent))

LayerWritten == Done("serialize_layer") /\ res.ok /\ res.v.t = "dict"

\* C13: a field that can be omitted is omitted from the encoded output
\* exactly when its value equals the default decoding supplies for an absent
\* key, for the attribute pairs and for each field of the hand-written
\* glyphs3 Layer serializer, width and visible included.
C13_OmittedExactlyAtDefault ==
    /\ PairsAgree
    /\ Done("serialize_layer") =>
        /\ LayerWritten
        /\ ~contains_key(res.v, layerId) <=> arg.layer_id = LayerDefault.layer_id
        /\ ~contains_key(res.v, visible) <=> arg.visible = LayerDefault.visible
        /\ ~contains_key(res.v, width) <=> FloatEq(arg.width, LayerDefault.width)

\* C13 (amended): the same, except that a Layer with a layerId always writes
\* its width; an omitted field always holds its default.
C13_OmittedOnlyAtDefault ==
    /\ PairsAgree
    /\ Done("serialize_layer") =>
        /\ LayerWritten
        /\ ~contains_key(res.v, layerId) <=> arg.layer_id = LayerDefault.layer_id
        /\ ~contains_key(res.v, visible) <=> arg.visible = LayerDefault.visible
        /\ ~contains_key(res.v, width) <=>
             (FloatEq(arg.width, LayerDefault.width) /\ arg.layer_id = LayerDefault.layer_id)

C13_Witness ==
    /\ LayerWritten
    /\ arg.layer_id # <<>> /\ arg.width = Float(0) /\ ~arg.visible
    /\ Get(res.v, width) = PInt(0) /\ Get(res.v, visible) = PInt(0)

C13_PairWitness ==
    Done("skip_serializing_if") /\ arg.attr = "is_one_hundred" /\ arg.value.i = 100 /\ res.omitted

Decimals(value) == [k \in 1..Len(value) |-> NatToStr(value[k])]

\* C14: the unicode field of a glyphs3 glyph decodes a bare integer as the
\* one-element list of it, is written as the bare integer when it has one
\* code point and as a parenthesised list when it has two or more, and
\* decode(encode(v)) = v for every non-empty list v.
C14_OneOrMany ==
    (Done("serialize_as_tuple") /\ Len(arg) >= 1) =>
        /\ Len(arg) = 1 => out = NatToStr(arg[1])
        /\ Len(arg) >= 2 => out = <<"(">> \o JoinText(Decimals(arg), <<",">>) \o <<")">>
        /\ res.ok /\ res.v = arg
        /\ one_or_many(PInt(arg[1])) = one_or_many(PArr(<<PInt(arg[1])>>))

C14_Witness ==
    /\ Done("serialize_as_tuple") /\ arg = <<102, 105>>
    /\ out = <<"(", "1", "0", "2", ",", "1", "0", "5", ")">>
    /\ res.ok /\ res.v = arg

\* every field the dictionary holds is of the type its variant declares
ShapeFieldsTyped(d) ==
    /\ int_to_bool(d, locked, Decoded(FALSE)).ok
    /\ int_to_bool(d, closed, Decoded(FALSE)).ok
    /\ DecodeNodes(d, nodes, Decoded(<<>>)).ok
    /\ DecodeString(d, ref, Decoded(<<>>)).ok

C15_JunkWitness ==
    /\ Done("deserialize_property") /\ arg.t = "dict" /\ contains_key(arg, propertyKey)
    /\ res.v.variant = "Junk" /\ res.v.plist = arg

Failing == Done("from_plist") /\ arg.within # "nothing"

\* C16: when Font::from_plist fails on a value nested in arrays and
\* dictionaries, the error names every level of the path from the root of
\* the document to the failing value, also when the value lies inside an
\* untagged union or is rejected by a custom codec.
C16_FullPath == Failing => ~res.ok /\ res.path = arg.fault

\* outside an untagged union the path is the full one
C16_FullPathOutsideUnions ==
    /\ (Failing /\ arg.within # "union") => ~res.ok /\ res.path = arg.fault
    /\ (Done("from_plist") /\ arg.within = "nothing") => res.ok

\* inside an untagged union the path ends at the union
C16_PathEndsAtUnion ==
    (Failing /\ arg.within = "union") =>
        /\ ~res.ok /\ Len(res.path) = 6 /\ res.path = SubSeq(arg.fault, 1, 6)
        /\ res.path[5] = AtField(shapes)

Min(a, b) == IF a < b THEN a ELSE b

NewlinesBefore(text, m) == {k \in 1..m : text[k] = "\n"}

LastNewline(text, m) ==
    IF NewlinesBefore(text, m) = {} THEN 0
    ELSE CHOOSE k \in NewlinesBefore(text, m) : \A j \in NewlinesBefore(text, m) : j <= k

\* C17: from_pos(s, pos) is the 1-based line and column of the byte offset
\* pos: the line is 1 plus the newlines in s[0 .. min(pos, len)], the column
\* 1 plus the bytes after the last of them; an offset past the end gives
\* what the offset len gives.
C17_LineAndColumn ==
    Done("from_pos") =>
        LET m == Min(arg.pos, Len(arg.text))
        IN  /\ res.line = 1 + Cardinality(NewlinesBefore(arg.text, m))
            /\ res.column = 1 + (m - LastNewline(arg.text, m))
            /\ arg.pos > Len(arg.text) => res = from_pos(arg.text, Len(arg.text))

C17_Witness ==
    /\ Done("from_pos") /\ arg.text = <<"a", "\n", "a", "a">> /\ arg.pos = 3
    /\ res = [line |-> 2, column |-> 2]

\* what the k-th character of a name becomes
ImageOf(name, k) ==
    IF k = 1 /\ name[k] = "." THEN <<"_">>
    ELSE IF name[k] \in ILLEGAL_CHARACTERS THEN <<"_">>
    ELSE IF to_lowercase(name[k]) # name[k] THEN <<name[k], "_">>
    ELSE <<name[k]>>

\* the images of the characters lo..hi of a name, one after the other
RECURSIVE ImagesOf(_, _, _)
ImagesOf(name, lo, hi) ==
    IF lo > hi THEN <<>>
    ELSE IF lo = hi THEN ImageOf(name, lo)
    ELSE ImagesOf(name, lo, (lo + hi) \div 2) \o ImagesOf(name, (lo + hi) \div 2 + 1, hi)

Images(name) == ImagesOf(name, 1, Len(name))

\* the parts of a text between its dots, a reserved one prefixed, joined again
PartsPrefixed(text) ==
    LET parts == Split(text, ".")
    IN  JoinText([k \in 1..Len(parts) |->
                    IF \E r \in RESERVED_FILE_NAMES : str_to_lowercase(parts[k]) = r
                    THEN <<"_">> \o parts[k] ELSE parts[k]], <<".">>)

C19_Examples ==
    /\ user_name_to_file_name(<<"A", ".", "A", "l", "t">>) = <<"A", "_", ".", "A", "_", "l", "t">>
    /\ user_name_to_file_name(<<".", "n", "o", "t", "d", "e", "f">>) = <<"_", "n", "o", "t", "d", "e", "f">>
    /\ user_name_to_file_name(<<"C", "O", "N">>) = <<"C", "_", "O", "_", "N", "_">>

\* a Glyphs2 font saved to a path with the extension glyphspackage
Glyphs2AsPackage ==
    /\ Done("save") /\ arg.font.format = "Glyphs2"
    /\ extension(arg.path) = [some |-> TRUE, v |-> glyphspackage]

\* C18: saving a Glyphs2 font to a path whose extension is glyphspackage
\* returns an error, creates no directory and writes no file: the disk is as
\* it was before the call.
C18_Glyphs2PackageRefused == Glyphs2AsPackage => ~res.ok /\ disk = arg.disk

C18_Witness ==
    /\ Glyphs2AsPackage /\ arg.font.glyphs # <<>> /\ arg.disk = EmptyDisk
    /\ ~res.ok /\ disk = EmptyDisk

\* the same call with a Glyphs3 font does write the package
C18_Glyphs3PackageWritten ==
    /\ Done("save") /\ arg.font.format = "Glyphs3" /\ arg.disk = EmptyDisk
    /\ extension(arg.path) = [some |-> TRUE, v |-> glyphspackage]
    => /\ res.ok
       /\ join(arg.path, glyphs) \in disk.dirs
       /\ {f.path : f \in disk.files} =
            {join(arg.path, OrderPlist), join(arg.path, FontinfoPlist)}
            \cup {join(arg.path, UIStatePlist) : x \in {1} \cap {Len(arg.font.display_strings)}}
            \cup {join(join(arg.path, glyphs),
                       user_name_to_file_name(arg.font.glyphs[k].name) \o DotGlyph) :
                    k \in 1..Len(arg.font.glyphs)}

\* the children of a value, and the serializers made for the elements of its
\* sequences: each in the state in which serialize_element drops it
Children(v) ==
    CASE v.t \in {"arr", "tuple", "tuple_struct"} -> {v.a[k] : k \in 1..Len(v.a)}
      [] v.t \in {"dict", "struct"} -> {v.e[k].v : k \in 1..Len(v.e)}
      [] OTHER -> {}

RECURSIVE Temporaries(_)
Temporaries(v) ==
    (IF v.t = "arr" THEN {Serialize(NewSerializer, x) : x \in Children(v)} ELSE {})
    \cup UNION {Temporaries(x) : x \in Children(v)}

RECURSIVE HoldsTupleStruct(_)
HoldsTupleStruct(v) == v.t = "tuple_struct" \/ \E x \in Children(v) : HoldsTupleStruct(x)

ToStringReturned == Done("to_string") \/ Done("serialize_tuple_struct")

\* C20: every entry pushed on a serializer's seq_stack when a sequence, tuple
\* or tuple struct starts is popped when the container ends: seq_stack is
\* empty when to_string returns, in the top-level serializer and in every
\* serializer made for an element.
C20_SeqStackBalanced ==
    ToStringReturned =>
        /\ ser.seq_stack = <<>>
        /\ \A tmp \in Temporaries(arg) : tmp.seq_stack = <<>>

\* C20, away from tuple structs: sequences and tuples leave every stack empty
C20_BalancedWithoutTupleStruct ==
    ToStringReturned /\ ~HoldsTupleStruct(arg) =>
        /\ ser.seq_stack = <<>>
        /\ \A tmp \in Temporaries(arg) : tmp.seq_stack = <<>>

\* C20, a tuple struct: its entry stays on the stack and its text has no
\* opening parenthesis
C20_TupleStructLeavesEntry ==
    Done("serialize_tuple_struct") /\ arg.t = "tuple_struct" =>
        /\ Len(ser.seq_stack) >= 1
        /\ ser.seq_stack[1].elements = <<>>
        /\ out[1] # "("
        /\ out[Len(out)] = ")"

\* a component that is a number, spaces around it aside
NumericComponent(c) == c \in {<<"1">>, <<"-", "2", ".", "5">>, <<" ", "3">>}

\* a string of exactly six components, each a number
SixNumbers(a) ==
    /\ a.wire.t = "str" /\ Len(a.parts) = 6
    /\ \A k \in 1..6 : NumericComponent(a.parts[k])

\* C21: decoding a glyphs2 Transform succeeds only for a string of exactly 6
\* comma-separated numeric components, and then gives these six numbers; any
\* other number of components, a component that is no number, or a bare
\* number gives the decode error Error::Parse and no Transform.
C21_TransformArity ==
    Done("deserialize_transform") =>
        IF SixNumbers(arg)
        THEN res = Decoded([ty |-> "transform",
                            parts |-> [k \in 1..6 |-> ComponentValue(arg.parts[k])]])
        ELSE res = [ok |-> FALSE, error |-> "Parse"]

C21_Witness ==
    /\ Done("deserialize_transform") /\ arg.wire.t = "str" /\ Len(arg.parts) = 7
    /\ \A k \in 1..7 : NumericComponent(arg.parts[k])
    /\ res = [ok |-> FALSE, error |-> "Parse"]

C21_BareNumberWitness ==
    Done("deserialize_transform") /\ arg.wire = PInt(6) /\ ~res.ok

\* the token came from the parser as an integer
BareInteger == Done("unicode_token") /\ res.wire.ok /\ res.wire.v.t = "int"

\* C22: a bare integer token of a glyphs2 unicode field is read as a
\* hexadecimal string, not as a decimal number: it decodes to what the string
\* of the same digits decodes to (0041 gives the code point 0x41).
C22_TokenReadAsHex == BareInteger => res.decoded = res.as_string

\* C22, what happens: the integer the parser made of the digits is the code
\* point, so 0041 gives 41 = 0x29
C22_TokenReadAsDecimal == BareInteger => res.decoded = Decoded(<<res.wire.v.i>>)

C22_FailingInput ==
    /\ BareInteger /\ arg = <<"0", "0", "4", "1">>
    /\ res.decoded = Decoded(<<41>>) /\ res.as_string = Decoded(<<65>>)

InternalKinds ==
    {"BadDataInternal", "UnknownEscapeInternal", "InvalidUnicodeEscapeInternal",
     "NotAStringInternal"}

\* the name of an internal variant without its ending
Positioned(kind) ==
    CASE kind = "BadDataInternal" -> "BadData"
      [] kind = "UnknownEscapeInternal" -> "UnknownEscape"
      [] kind = "InvalidUnicodeEscapeInternal" -> "InvalidUnicodeEscape"
      [] kind = "NotAStringInternal" -> "NotAString"

\* C23: Error::at(s, pos) turns each internal error into its positioned
\* counterpart with LineColumn::from_pos(s, pos) and the same payload, returns
\* every other error unchanged, never returns an internal variant, and a
\* second application changes nothing.
C23_ErrorAt ==
    Done("at") =>
        /\ arg.err.kind \in InternalKinds =>
              /\ res.once.kind = Positioned(arg.err.kind)
              /\ res.once.lc = from_pos(arg.text, arg.pos)
              /\ DOMAIN res.once = DOMAIN arg.err \cup {"lc"}
              /\ \A f \in DOMAIN arg.err \ {"kind"} : res.once[f] = arg.err[f]
        /\ arg.err.kind \notin InternalKinds => res.once = arg.err
        /\ res.once.kind \notin InternalKinds
        /\ res.same = res.once
        /\ res.elsewhere = res.once

C23_Witness ==
    /\ Done("at") /\ arg.err = [kind |-> "InvalidUnicodeEscapeInternal", seq |-> <<"U", "z">>]
    /\ arg.text = <<"a", "\n">> /\ arg.pos = 2
    /\ res.once = [kind |-> "InvalidUnicodeEscape", seq |-> <<"U", "z">>,
                   lc |-> from_pos(<<"a", "\n">>, 2)]
    /\ res.once.lc # from_pos(arg.again.text, arg.again.pos)

\* the elements of a sequence that satisfy Keep, in their order
RECURSIVE NamesWithFile(_, _)
NamesWithFile(order, files) ==
    IF order = <<>> THEN <<>>
    ELSE (IF Head(order).t = "str" /\ Head(order).s \in files THEN <<Head(order).s>> ELSE <<>>)
         \o NamesWithFile(Tail(order), files)

GlyphDict(name) ==
    PDict(<<Entry(glyphname, PStr(name)), Entry(layers, PArr(<<>>))>>)

\* C24: load_package_entries finds its entries whatever the style of their
\* paths, fails when fontinfo.plist or order.plist is absent, and otherwise
\* decodes a document whose glyphs are the parsed glyph files that exist, in
\* the order of order.plist, and whose DisplayStrings is the displayStrings
\* array of UIState.plist when that entry is present.
C24_PackageEntries ==
    Done("load_package_entries") =>
        /\ res.reached <=> arg.parts.info # {} /\ arg.parts.order # {}
        /\ res.reached =>
              /\ Get(res.document, glyphs)
                    = PArr([k \in 1..Len(NamesWithFile(arg.order, arg.files)) |->
                              GlyphDict(NamesWithFile(arg.order, arg.files)[k])])
              /\ \A u \in arg.parts.ui :
                    contains_key(parse(u).v, displayStrings) =>
                        Get(res.document, DisplayStrings) = Get(parse(u).v, displayStrings)

C24_Witness ==
    /\ Done("load_package_entries") /\ res.reached /\ res.font.ok
    /\ arg.style = <<".", "\\">>
    /\ arg.order = <<PStr(<<"c", "o", "n">>), PStr(<<"A">>)>> /\ arg.files = {<<"A">>}
    /\ Get(res.document, glyphs) = PArr(<<GlyphDict(<<"A">>)>>)
    /\ contains_key(res.document, DisplayStrings)
    /\ Get(res.document, DisplayStrings) = Strs(<<<<"a">>, <<"b">>>>)

\* C25: for glyphs2 Instance decode(encode(x)) = x for every value x, one
\* whose link_style (isRegular) is None included: an absent optional value
\* is never written as a token that decodes to a present value.
C25_InstanceRoundTrips == Done("instance") => res = Decoded(arg)

\* C25, with a link_style: the instance reads back as it was
C25_PresentLinkStyleRoundTrips ==
    Done("instance") /\ arg.link_style.some => res = Decoded(arg)

\* C25, without one: null is written and read back as the string null
C25_NoneReadAsNull ==
    Done("instance") /\ ~arg.link_style.some =>
        /\ \E k \in 1..(Len(out) - 16) :
              SubSeq(out, k, k + 16) = isRegular \o <<" ", "=", " ", "n", "u", "l", "l", ";">>
        /\ res = Decoded([arg EXCEPT !.link_style = Some(<<"n", "u", "l", "l">>)])

\* C26: for the untagged glyphs2 HintTarget decode(encode(x)) = x for both
\* variants: Position(p) for every point p, and Label(s) for every string s,
\* a string of numbers separated by commas included.
C26_HintTargetRoundTrips == Done("hint_target") => res = Decoded(arg)

\* C26, the positions
C26_PositionRoundTrips ==
    Done("hint_target") /\ arg.variant = "Position" => res = Decoded(arg)

\* a label that the codec of Position accepts: two or more numbers between
\* commas, braces around them or not
ReadsAsPosition(text) == visit_str("point", text).ok

\* C26, the labels: one that is no list of numbers reads back, one that is
\* reads back as the Position of its first two numbers
C26_LabelReadAsPosition ==
    Done("hint_target") /\ arg.variant = "Label" =>
        IF ReadsAsPosition(arg.s)
        THEN res.ok /\ res.v.variant = "Position"
        ELSE res = Decoded(arg)

C26_FailingInput ==
    /\ Done("hint_target") /\ arg = Label(<<"1", ",", "2">>)
    /\ res = Decoded(Position(<<Float(100000000), Float(200000000)>>))

ZeroOrOne == Done("wire_bool") /\ arg.wire \in {PInt(0), PInt(1)}

\* C27: wire booleans are the integers 0 and 1: each bool decoder of the
\* bridge maps the wire integer 1 to true and 0 to false, and encoding what
\* was decoded from 0 or 1 gives the same integer back.
C27_WireBooleans ==
    ZeroOrOne => res = Decoded(arg.wire.i = 1) /\ out = IntToStr(arg.wire.i)

\* C27, the decoders other than anything_to_bool
C27_IntToBool ==
    ZeroOrOne /\ arg.decoder # "anything_to_bool" =>
        res = Decoded(arg.wire.i = 1) /\ out = IntToStr(arg.wire.i)

\* C27, anything_to_bool: every string and every integer is true, 0 included
C27_AnythingIsTrue ==
    Done("wire_bool") /\ arg.decoder = "anything_to_bool" /\ arg.wire.t \in {"int", "str"} =>
        res = Decoded(TRUE) /\ out = <<"1">>

(***************************************************************************)
(* C28: the length of a file name                                          *)
(***************************************************************************)
\* C28: user_name_to_file_name returns normally, and what it returns is at
\* most MAX_FILE_NAME_LENGTH bytes long, for every name: long names, names
\* with multi-byte characters, names with a reserved part
C28_FileNameFits ==
    Done("file_name_length") =>
        /\ res # Panicked
        /\ byte_len(res) <= MAX_FILE_NAME_LENGTH

\* a name that is returned normally and has no part prefixed fits
C28_UnprefixedNameFits ==
    (Done("file_name_length")
        /\ res = truncate(filter_username(replace_initial_period(arg)), MAX_FILE_NAME_LENGTH)
        /\ res # Panicked)
    => byte_len(res) <= MAX_FILE_NAME_LENGTH

\* only a name with a multi-byte character panics
C28_Panics ==
    (Done("file_name_length") /\ res = Panicked)
    => byte_len(arg) > Len(arg)

\* a reserved part of a name that fills the limit makes the file name longer
C28_TooLong ==
    Done("file_name_length") /\ res # Panicked
        /\ byte_len(res) = MAX_FILE_NAME_LENGTH + 1

C28_Panicked == Done("file_name_length") /\ res = Panicked

(***************************************************************************)
(* C29: the format variant through to_string and load_str                  *)
(***************************************************************************)
\* C29: the text of a font has the top-level key .formatVersion exactly
\* when the font is Glyphs3, and the font loaded from the text, when the
\* load succeeds, is Glyphs3 exactly when the font written is
C29_FormatKept ==
    Done("font_round_trip") =>
        /\ res.document.ok
        /\ is_glyphs3(res.document.v) <=> (arg.format = "Glyphs3")
        /\ res.font.ok => ((res.font.v.format = "Glyphs3") <=> (arg.format = "Glyphs3"))

\* a Glyphs3 font of format version 2, and loaded as Glyphs3
C29_Witness ==
    /\ Done("font_round_trip")
    /\ arg.format = "Glyphs3" /\ arg.format_version = version_two
    /\ res.font.ok /\ res.font.v.format = "Glyphs3"

\* a Glyphs2 font that has .formatVersion as a string, loaded as Glyphs2
C29_Glyphs2Witness ==
    /\ Done("font_round_trip")
    /\ arg.format = "Glyphs2" /\ arg.family_name = formatVersion
    /\ arg.display_strings = <<formatVersion>>
    /\ res.font.ok /\ res.font.v.format = "Glyphs2"

\* the font loaded is the font written
C29_FontKept == Done("font_round_trip") /\ res.font.ok => res.font.v = arg

(***************************************************************************)
(* C30: a package saved and loaded                                         *)
(***************************************************************************)
GlyphFileNames == [k \in 1..Len(arg.glyphs) |-> user_name_to_file_name(arg.glyphs[k].name)]

GlyphFilesOnDisk ==
    {f.path : f \in {g \in disk.files : parent(g.path) = join(PackagePath, glyphs)}}

Loaded ==
    /\ res.saved /\ res.loaded.reached /\ res.loaded.font.ok
    /\ res.loaded.font.v.format = "Glyphs3"

\* C30: a Glyphs3 font saved as a package into an empty directory and
\* loaded from it has the same glyphs in the same order and the same
\* display strings; glyphs of pairwise distinct names are written to
\* pairwise distinct files, one file for each glyph
C30_PackageRoundTrip ==
    Done("package_round_trip") =>
        /\ Loaded
        /\ res.loaded.font.v.glyphs = arg.glyphs
        /\ res.loaded.font.v.display_strings = arg.display_strings
        /\ PairwiseDistinct(GlyphFileNames)
        /\ Cardinality(GlyphFilesOnDisk) = Len(arg.glyphs)

\* the font is loaded as it was saved when no two glyphs share a file name
C30_DistinctFilesRoundTrip ==
    (Done("package_round_trip") /\ PairwiseDistinct(GlyphFileNames))
    => Loaded /\ res.loaded.font.v = arg

\* two glyphs of one file name: the file of the earlier glyph is replaced,
\* and the later glyph is loaded twice
C30_FailingInput ==
    /\ Done("package_round_trip")
    /\ Len(arg.glyphs) = 2 /\ arg.glyphs[1].name = <<".", "n">>
    /\ arg.glyphs[2].name = <<"_", "n">>
    /\ Loaded
    /\ res.loaded.font.v.glyphs = <<arg.glyphs[2], arg.glyphs[2]>>
    /\ Cardinality(GlyphFilesOnDisk) = 1

====
